---- MODULE Spec2Model ----
(***************************************************************************)
(* Time normalisation and averaging of NOAA grid forecasts: the hourly     *)
(* resampler, AverageForecast, parseDuration and UnmarshalJSON, and the    *)
(* cache of Points.                                                        *)
(*                                                                         *)
(* Instants and durations are whole hours: ForecastTime.UnmarshalJSON      *)
(* truncates every instant to the hour and parseDuration adds whole hours, *)
(* so time.Time is an integer hour count and the time.Duration of a series *)
(* value an integer number of hours.  What parseDuration returns and       *)
(* UnmarshalJSON writes is the int64 behind a time.Duration: the hours     *)
(* added and whether their sum in nanoseconds wrapped around 2^63.  A      *)
(* float64 is an IEEE 754 binary64 value; every operation rounds as the    *)
(* processor does.  A Go pointer is a sequence of length 0 (nil) or 1 (the *)
(* object pointed to).  A Go call ends "ok", "error" (a non-nil error is   *)
(* returned) or "panic" (a run-time panic: index out of range, nil         *)
(* dereference).                                                           *)
(***************************************************************************)
EXTENDS Integers, Sequences, FiniteSets, TLC

VARIABLES grid, createRet, series, hourlyRet, forecasts, avgRet,
          text, parseRet, unmarshalRet,
          pointsCache, apiRequests, pointsRet, calls, program

vars == <<grid, createRet, series, hourlyRet, forecasts, avgRet, text, parseRet,
          unmarshalRet, pointsCache, apiRequests, pointsRet, calls, program>>

-----------------------------------------------------------------------------
(* Pointers *)

Nil == << >>

Ptr(x) == <<x>>

IsNil(p) == p = << >>

Deref(p) == p[1]

-----------------------------------------------------------------------------
(* Natural numbers of any size, for the mantissas of float64: a number is   *)
(* the sequence of its digits in base 2^15, lowest first, the highest not   *)
(* zero; << >> is 0.                                                        *)

LimbBits == 15

Limb == 32768

Abs(x) == IF x < 0 THEN -x ELSE x

Max(a, b) == IF a > b THEN a ELSE b

Min(a, b) == IF a < b THEN a ELSE b

\* the digits of a without its leading zeros
RECURSIVE trim(_)
trim(a) ==
  IF Len(a) > 0 /\ a[Len(a)] = 0 THEN trim(SubSeq(a, 1, Len(a) - 1)) ELSE a

\* the digits of the integer n >= 0
RECURSIVE natOf(_)
natOf(n) == IF n = 0 THEN << >> ELSE << n % Limb >> \o natOf(n \div Limb)

limbAt(a, i) == IF i <= Len(a) THEN a[i] ELSE 0

RECURSIVE addFrom(_, _, _, _)
addFrom(a, b, i, carry) ==
  IF i > Len(a) /\ i > Len(b) THEN natOf(carry)
  ELSE LET s == limbAt(a, i) + limbAt(b, i) + carry
       IN << s % Limb >> \o addFrom(a, b, i + 1, s \div Limb)

\* a + b
natAdd(a, b) == addFrom(a, b, 1, 0)

RECURSIVE subFrom(_, _, _, _)
subFrom(a, b, i, borrow) ==
  IF i > Len(a) THEN << >>
  ELSE LET d == limbAt(a, i) - limbAt(b, i) - borrow
       IN << IF d < 0 THEN d + Limb ELSE d >>
            \o subFrom(a, b, i + 1, IF d < 0 THEN 1 ELSE 0)

\* a - b, for a >= b
natSub(a, b) == trim(subFrom(a, b, 1, 0))

RECURSIVE cmpFrom(_, _, _)
cmpFrom(a, b, i) ==
  IF i = 0 THEN 0
  ELSE IF a[i] < b[i] THEN -1
  ELSE IF a[i] > b[i] THEN 1
  ELSE cmpFrom(a, b, i - 1)

\* -1, 0 or 1 as a is below, equal to or above b
natCmp(a, b) ==
  IF Len(a) < Len(b) THEN -1
  ELSE IF Len(a) > Len(b) THEN 1
  ELSE cmpFrom(a, b, Len(a))

RECURSIVE mulFrom(_, _, _, _)
mulFrom(a, m, i, carry) ==
  IF i > Len(a) THEN natOf(carry)
  ELSE LET p == a[i] * m + carry
       IN << p % Limb >> \o mulFrom(a, m, i + 1, p \div Limb)

\* a * m, for 0 < m <= Limb
natMul(a, m) == mulFrom(a, m, 1, 0)

\* quotient (digits 1..i) and remainder of a by n, for 0 < n <= Limb
RECURSIVE divFrom(_, _, _, _)
divFrom(a, n, i, rem) ==
  IF i = 0 THEN [q |-> << >>, r |-> rem]
  ELSE LET cur == rem * Limb + a[i]
           low == divFrom(a, n, i - 1, cur % n)
       IN [q |-> Append(low.q, cur \div n), r |-> low.r]

natDiv(a, n) ==
  LET d == divFrom(a, n, Len(a), 0) IN [q |-> trim(d.q), r |-> d.r]

\* the number of bits of x, 0 <= x <= Limb
width(x) == CHOOSE w \in 0..(LimbBits + 1) : x < 2 ^ w /\ (w = 0 \/ x >= 2 ^ (w - 1))

\* the number of bits of a
bits(a) == IF Len(a) = 0 THEN 0 ELSE LimbBits * (Len(a) - 1) + width(a[Len(a)])

\* a * 2^k
shl(a, k) ==
  IF Len(a) = 0 THEN a
  ELSE [i \in 1..(k \div LimbBits) |-> 0] \o natMul(a, 2 ^ (k % LimbBits))

\* a / 2^k, the bits below dropped
shr(a, k) ==
  IF k >= bits(a) THEN << >>
  ELSE natDiv(SubSeq(a, (k \div LimbBits) + 1, Len(a)), 2 ^ (k % LimbBits)).q

\* bit i of a, bit 0 the lowest
bit(a, i) == (limbAt(a, (i \div LimbBits) + 1) \div (2 ^ (i % LimbBits))) % 2

\* some bit of a below bit i is set
anyBelow(a, i) ==
  \/ \E j \in 1..(i \div LimbBits) : limbAt(a, j) # 0
  \/ limbAt(a, (i \div LimbBits) + 1) % (2 ^ (i % LimbBits)) # 0

\* the number of zero bits at the low end of an integer n, 0 < n < 2^31
lowZeros(n) == CHOOSE z \in 0..(2 * LimbBits) : n % (2 ^ z) = 0 /\ (n \div (2 ^ z)) % 2 = 1

\* the lowest digit of a > 0 that is not zero
lowestDigit(a) == CHOOSE j \in 1..Len(a) : a[j] # 0 /\ \A i \in 1..(j - 1) : a[i] = 0

\* the number of zero bits at the low end of a > 0
trailingZeros(a) == LimbBits * (lowestDigit(a) - 1) + lowZeros(a[lowestDigit(a)])

-----------------------------------------------------------------------------
(* float64 (IEEE 754 binary64).  A finite value is (-1)^neg * mant * 2^exp  *)
(* with mant odd and below 2^53, or mant = 0 (the two zeros); besides these *)
(* there are the two infinities and NaN.  Every operation returns the exact *)
(* result rounded to the nearest value, ties to the even mantissa, as the   *)
(* processor does.                                                          *)

\* the bits of a mantissa
MantissaBits == 53

\* the exponent of the lowest bit a float64 can hold (2^-1074)
MinExponent == -1074

\* a float64 is below 2^1024 in magnitude
MaxExponent == 1024

Finite(neg, mant, exp) == [class |-> "finite", neg |-> neg, mant |-> mant, exp |-> exp]

Zero(neg) == Finite(neg, << >>, 0)

Inf(neg) == [class |-> "inf", neg |-> neg, mant |-> << >>, exp |-> 0]

NaN == [class |-> "nan", neg |-> FALSE, mant |-> << >>, exp |-> 0]

\* Op(x), the operand x worked out before Op is applied to it
Once(Op(_), x) == CHOOSE r \in { Op(v) : v \in { x } } : TRUE

\* Op(x, y), both operands worked out before
Once2(Op(_, _), x, y) == CHOOSE r \in { Op(v, w) : v \in { x }, w \in { y } } : TRUE

\* (-1)^neg * m * 2^e with m made odd; nothing is rounded
dyadic(neg, m, e) ==
  Once(LAMBDA v : IF Len(v) = 0 THEN Zero(neg)
                  ELSE IF v[1] % 2 = 1 THEN Finite(neg, v, e)
                  ELSE Finite(neg, shr(v, trailingZeros(v)), e + trailingZeros(v)),
       m)

\* (-1)^neg * n * 2^e for an integer n >= 0; nothing is rounded
dyadicOf(neg, n, e) ==
  IF n = 0 THEN Zero(neg)
  ELSE Finite(neg, natOf(n \div (2 ^ lowZeros(n))), e + lowZeros(n))

\* the bits at the low end of m that a float64 cannot hold
dropped(m, e) == Max(0, Max(bits(m) - MantissaBits, MinExponent - e))

\* m without its lowest drop > 0 bits rounds up: the highest of them is set
\* and either a lower one is, or the lowest bit kept is (the tie goes to the
\* even mantissa)
roundsUp(m, drop) ==
  /\ bit(m, drop - 1) = 1
  /\ anyBelow(m, drop - 1) \/ bit(m, drop) = 1

\* m without its lowest drop bits, rounded to the nearest
nearest(m, drop) ==
  IF drop = 0 THEN m
  ELSE natAdd(shr(m, drop), IF roundsUp(m, drop) THEN << 1 >> ELSE << >>)

\* (-1)^neg * r * 2^e, or the infinity when that is 2^1024 or more
finite(neg, r, e) == IF bits(r) + e > MaxExponent THEN Inf(neg) ELSE dyadic(neg, r, e)

\* m * 2^e is a float64 as it stands: m has few digits and e is in range
fits(m, e) ==
  Len(m) * LimbBits <= MantissaBits /\ e >= MinExponent /\ e < MaxExponent - MantissaBits

\* the float64 nearest to (-1)^neg * m * 2^e
float64(neg, m, e) ==
  Once(LAMBDA v : IF fits(v, e) THEN dyadic(neg, v, e)
                  ELSE finite(neg, nearest(v, dropped(v, e)), e + dropped(v, e)),
       m)

\* float64(n) for an integer n: every int is a float64
Whole(n) == dyadicOf(n < 0, Abs(n), 0)

\* the float64 n * 2^e, for an int n and e within the exponents of float64
Scaled(n, e) == dyadicOf(n < 0, Abs(n), e)

\* a + b or the difference of a and b, as the signs are equal or not, by
\* 2^e, with the sign of the larger; c compares a with b
signedSum(xneg, a, yneg, b, e, c) ==
  dyadic(IF xneg = yneg \/ c > 0 THEN xneg ELSE c < 0 /\ yneg,
         IF xneg = yneg THEN natAdd(a, b)
         ELSE IF c < 0 THEN natSub(b, a) ELSE natSub(a, b),
         e)

\* the mantissas a and b at the common exponent e
aligned(xneg, a, yneg, b, e) == signedSum(xneg, a, yneg, b, e, natCmp(a, b))

\* the same for integers a and b that a machine integer holds
signedSumOf(xneg, a, yneg, b, e) ==
  dyadicOf(IF xneg = yneg \/ a > b THEN xneg ELSE a < b /\ yneg,
           IF xneg = yneg THEN a + b ELSE Abs(a - b),
           e)

\* the exact sum of two finite values, not rounded
exactPlus(x, y) ==
  IF Len(x.mant) = 0 /\ Len(y.mant) = 0 THEN Zero(x.neg /\ y.neg)
  ELSE IF Len(x.mant) = 0 THEN y
  ELSE IF Len(y.mant) = 0 THEN x
  ELSE IF Len(x.mant) = 1 /\ Len(y.mant) = 1 /\ Abs(x.exp - y.exp) < LimbBits
  THEN signedSumOf(x.neg, x.mant[1] * 2 ^ (x.exp - Min(x.exp, y.exp)),
                   y.neg, y.mant[1] * 2 ^ (y.exp - Min(x.exp, y.exp)),
                   Min(x.exp, y.exp))
  ELSE Once2(LAMBDA a, b : aligned(x.neg, a, y.neg, b, Min(x.exp, y.exp)),
             shl(x.mant, x.exp - Min(x.exp, y.exp)),
             shl(y.mant, y.exp - Min(x.exp, y.exp)))

\* the exact product of a finite value and an integer n > 0, not rounded
exactTimes(x, n) == dyadic(x.neg, natMul(x.mant, n), x.exp)

\* the float64 nearest to the finite value s
rounded(s) == float64(s.neg, s.mant, s.exp)

\* the exponent above the highest bit of a finite value
top(x) == bits(x.mant) + x.exp

\* x as it weighs in the float64 x + y: a value more than two mantissas
\* below y only tells the rounding on which side of y the sum lies, as any
\* value that far below does
weighed(x, y) ==
  IF Len(x.mant) > 0 /\ Len(y.mant) > 0 /\ top(x) < top(y) - 2 * MantissaBits
  THEN Finite(x.neg, << 1 >>, top(y) - 2 * MantissaBits)
  ELSE x

\* x + y of two values worked out
sum(x, y) ==
  IF x.class = "nan" \/ y.class = "nan" THEN NaN
  ELSE IF x.class = "inf" /\ y.class = "inf" THEN (IF x.neg = y.neg THEN x ELSE NaN)
  ELSE IF x.class = "inf" THEN x
  ELSE IF y.class = "inf" THEN y
  ELSE Once(rounded, exactPlus(weighed(x, y), weighed(y, x)))

\* x + y
Plus(x, y) == Once2(sum, x, y)

\* x * float64(n) for an integer n, 0 < n <= Limb
Times(x, n) ==
  Once(LAMBDA v : IF v.class # "finite" THEN v
                  ELSE float64(v.neg, natMul(v.mant, n), v.exp),
       x)

\* the float64 nearest to x / (odd * 2^k), from the quotient d of
\* x.mant * 2^s by odd: a remainder adds one bit below the quotient, which
\* rounds as the whole remainder would
ratio(x, k, s, d) ==
  float64(x.neg,
          IF d.r = 0 THEN d.q ELSE natAdd(natMul(d.q, 2), << 1 >>),
          x.exp - k - s - (IF d.r = 0 THEN 0 ELSE 1))

\* the quotient is carried to 56 bits or more
carried(x, odd, k, s) ==
  Once(LAMBDA d : ratio(x, k, s, d), natDiv(shl(x.mant, s), odd))

\* x / float64(n) for an integer n, 0 < n <= Limb.  n is 2^k times an odd
\* number
quotient(x, n) ==
  Once(LAMBDA v : IF v.class # "finite" \/ Len(v.mant) = 0 \/ n = 1 THEN v
                  ELSE IF n = 2 ^ lowZeros(n) THEN float64(v.neg, v.mant, v.exp - lowZeros(n))
                  ELSE carried(v, n \div (2 ^ lowZeros(n)), lowZeros(n),
                               Max(0, 56 + width(n \div (2 ^ lowZeros(n))) - bits(v.mant))),
       x)

\* math.Round(x): the nearest whole number, halves away from zero
Round(x) ==
  Once(LAMBDA v : IF v.class # "finite" \/ v.exp >= 0 THEN v
                  ELSE dyadic(v.neg,
                              natAdd(shr(v.mant, -v.exp),
                                     IF bit(v.mant, (-v.exp) - 1) = 1 THEN << 1 >> ELSE << >>),
                              0),
       x)

\* the smallest and the largest int64, as whole numbers
MinInt64 == Finite(TRUE, << 1 >>, 63)

MaxInt64 == Finite(FALSE, << 32767, 32767, 32767, 32767, 7 >>, 0)

\* int64(x): the fraction is dropped, toward zero.  For a value no int64
\* holds the result depends on the processor: amd64 gives the smallest
\* int64, arm64 the nearest int64 and 0 for NaN.
Trunc(x) ==
  IF x.class = "nan" THEN { MinInt64, Zero(FALSE) }
  ELSE IF x.class = "inf" THEN { MinInt64, IF x.neg THEN MinInt64 ELSE MaxInt64 }
  ELSE IF x = MinInt64 \/ bits(x.mant) + x.exp <= 63
       THEN { Once(LAMBDA whole : dyadic(x.neg /\ Len(whole) > 0, whole, Max(0, x.exp)),
                   IF x.exp >= 0 THEN x.mant ELSE shr(x.mant, -x.exp)) }
  ELSE { MinInt64, IF x.neg THEN MinInt64 ELSE MaxInt64 }

-----------------------------------------------------------------------------
(* ForecastTime, ForecastTimeseriesValue, ForecastTimeseries *)

ForecastTime(t, d) == [Time |-> t, Duration |-> d]

ForecastTimeseriesValue(t, d, v) == [Time |-> ForecastTime(t, d), Value |-> v]

ForecastTimeseries(name, id, units, values) ==
  [Name |-> name, ID |-> id, Units |-> units, Values |-> values]

endTime(ft) == ft.Time + ft.Duration

\* ts.Values[0].Time.Time; the caller guards the empty series (index panic)
Tmin(ts) == ts.Values[1].Time.Time

Tmax(ts) == endTime(ts.Values[Len(ts.Values)].Time)

\* time.Hour, in hours
Hour == 1

-----------------------------------------------------------------------------
(* hourly (src/hourly.go).  The output array out[0..Nhours-1] is filled    *)
(* strictly left to right (every write is to out[hr], followed by hr++),   *)
(* so it is kept as the sequence of its filled slots: Len(out) = hr, the   *)
(* slots hr..Nhours-1 are still nil.  A write with hr >= Nhours is Go's    *)
(* index-out-of-range panic.                                               *)

HourlyStep(out, panic) == [out |-> out, panic |-> panic]

\* for i := 0; i < padHoursStart; i++ { out[hr] = {tMin + i h, 1h, first}; hr++ }
RECURSIVE padStart(_, _, _, _, _, _)
padStart(out, i, padHoursStart, tMin, firstValueSeries, Nhours) ==
  IF i >= padHoursStart THEN HourlyStep(out, FALSE)
  ELSE IF Len(out) >= Nhours THEN HourlyStep(out, TRUE)
  ELSE padStart(Append(out, ForecastTimeseriesValue(tMin + i * Hour, Hour,
                                                    firstValueSeries.Value)),
                i + 1, padHoursStart, tMin, firstValueSeries, Nhours)

\* for j := 1; j < hrsInterpolate; j++ { out[hr] = {last + j h, 1h, last.Value}; hr++ }
RECURSIVE interpolate(_, _, _, _, _)
interpolate(out, j, hrsInterpolate, lastValue, Nhours) ==
  IF j >= hrsInterpolate THEN HourlyStep(out, FALSE)
  ELSE IF Len(out) >= Nhours THEN HourlyStep(out, TRUE)
  ELSE interpolate(Append(out, ForecastTimeseriesValue(
                                 lastValue.Time.Time + j * Hour, Hour,
                                 lastValue.Value)),
                   j + 1, hrsInterpolate, lastValue, Nhours)

\* a span loop that stamps each slot one hour late
RECURSIVE spanOneHourLate(_, _, _, _, _)
spanOneHourLate(out, i, hrsSpan, t, Nhours) ==
  IF i >= hrsSpan \/ Len(out) >= Nhours THEN out
  ELSE spanOneHourLate(Append(out, ForecastTimeseriesValue(
                                     t.Time.Time + (i + 1) * Hour, Hour, t.Value)),
                       i + 1, hrsSpan, t, Nhours)

\* for i := 0; i < hrsSpan; i++ { if hr >= Nhours { break }; out[hr] = ...; hr++ }
RECURSIVE span(_, _, _, _, _)
span(out, i, hrsSpan, t, Nhours) ==
  IF i >= hrsSpan \/ Len(out) >= Nhours THEN out
  ELSE span(Append(out, ForecastTimeseriesValue(t.Time.Time + i * Hour, Hour,
                                                t.Value)),
            i + 1, hrsSpan, t, Nhours)

\* the gap fill before one value of the input series
fillGap(out, t, Nhours) ==
  IF Len(out) > 0 /\ Len(out) < Nhours
  THEN LET lastValue == out[Len(out)]
           hrsInterpolate == t.Time.Time - lastValue.Time.Time
       IN interpolate(out, 1, hrsInterpolate, lastValue, Nhours)
  ELSE HourlyStep(out, FALSE)

\* for _, t := range ts.Values { gap fill; span }
RECURSIVE walkValues(_, _, _, _)
walkValues(out, values, k, Nhours) ==
  IF k > Len(values) THEN HourlyStep(out, FALSE)
  ELSE LET t == values[k]
           g == fillGap(out, t, Nhours)
       IN IF g.panic THEN g
          ELSE walkValues(span(g.out, 0, t.Time.Duration, t, Nhours),
                          values, k + 1, Nhours)

\* for i := 1; i <= padHoursEnd; i++ { out[hr+i-1] = {last + i h, 1h, last.Value} }
RECURSIVE padEnd(_, _, _, _)
padEnd(out, i, padHoursEnd, lastValue) ==
  IF i > padHoursEnd THEN out
  ELSE padEnd(Append(out, ForecastTimeseriesValue(lastValue.Time.Time + i * Hour,
                                                  Hour, lastValue.Value)),
              i + 1, padHoursEnd, lastValue)

HourlyResult(status, err, ts) == [status |-> status, err |-> err, ts |-> ts]

HourlyPanic == HourlyResult("panic", "", Nil)

\* the two boundary checks and the returned series
checkBounds(ts, out, tMin, tMax, Nhours) ==
  IF out[1].Time.Time # tMin THEN HourlyResult("error", "start times do not match", Nil)
  ELSE IF out[Nhours].Time.Time # tMax
       THEN HourlyResult("error", "end times do not match", Nil)
       ELSE HourlyResult("ok", "",
                         Ptr(ForecastTimeseries(ts.Name, ts.ID, ts.Units, out)))

hourly(ts, tMin, tMax) ==
  LET Nhours == (tMax - tMin) + 1
  IN IF Len(ts.Values) = 0 \/ Nhours < 0 THEN HourlyPanic
     ELSE LET firstValueSeries == ts.Values[1]
              padHoursStart == Tmin(ts) - tMin
              a == padStart(<< >>, 0, padHoursStart, tMin, firstValueSeries, Nhours)
          IN IF a.panic THEN HourlyPanic
             ELSE LET b == walkValues(a.out, ts.Values, 1, Nhours)
                  IN IF b.panic \/ Len(b.out) = 0 THEN HourlyPanic
                     ELSE LET hr == Len(b.out)
                              lastValue == b.out[hr]
                              out == padEnd(b.out, 1, Nhours - hr, lastValue)
                          IN checkBounds(ts, out, tMin, tMax, Nhours)

-----------------------------------------------------------------------------
(* hourly as src/average.go declares it: no gap fill, and an end padding    *)
(* that counts its hours from the last value of the input series            *)

\* for _, t := range ts.Values { for i := 0; i < hours(t.Duration); i++ {
\*   if hr >= Nhours { continue }; out[hr] = {t + i h, 1h, t.Value}; hr++ } }
RECURSIVE walkSpans(_, _, _, _)
walkSpans(out, values, k, Nhours) ==
  IF k > Len(values) THEN out
  ELSE walkSpans(span(out, 0, values[k].Time.Duration, values[k], Nhours),
                 values, k + 1, Nhours)

hourlyOfAverage(ts, tMin, tMax) ==
  LET Nhours == (tMax - tMin) + 1
  IN IF Len(ts.Values) = 0 \/ Nhours < 0 THEN HourlyPanic
     ELSE LET firstValue == ts.Values[1]
              lastValue == ts.Values[Len(ts.Values)]
              padHoursStart == Tmin(ts) - tMin
              a == padStart(<< >>, 0, padHoursStart, tMin, firstValue, Nhours)
          IN IF a.panic THEN HourlyPanic
             ELSE LET b == walkSpans(a.out, ts.Values, 1, Nhours)
                      out == padEnd(b, 1, Nhours - Len(b), lastValue)
                  IN IF Nhours = 0 THEN HourlyPanic
                     ELSE checkBounds(ts, out, tMin, tMax, Nhours)

-----------------------------------------------------------------------------
(* ForecastGridResponse, fillInfo, timeseriesMap, newForecastGridResponse  *)

\* the order of timeseriesMap's assignments (and hourly.go's seriesNames)
seriesNames ==
  << "Temperature", "SkyCover", "WindSpeed", "PrecipitationProbability",
     "PrecipitationQuantity", "SnowFallAmount", "SnowLevel" >>

SeriesNameSet == { seriesNames[k] : k \in 1..Len(seriesNames) }

forecastElevation(value, units) == [Value |-> value, Units |-> units]

\* ts.Name = name; ts.ID = id: writes through the pointer into the caller's series
fillInfo(ts, name, id) == [ts EXCEPT !.Name = name, !.ID = id]

\* timeseriesMap fills the seven series of f in order, through their pointers;
\* a nil series panics in fillInfo, the series before it already written.
RECURSIVE fillSeries(_, _)
fillSeries(f, k) ==
  IF k > Len(seriesNames) THEN [f |-> f, panic |-> FALSE]
  ELSE LET nm == seriesNames[k]
       IN IF IsNil(f[nm]) THEN [f |-> f, panic |-> TRUE]
          ELSE fillSeries([f EXCEPT ![nm] = Ptr(fillInfo(Deref(f[nm]), nm, f.ID))],
                          k + 1)

\* the forecast after the call (its series hold Name and ID) and the map returned
timeseriesMap(f) ==
  LET r == fillSeries(f, 1)
  IN [f |-> r.f, panic |-> r.panic, map |-> [nm \in SeriesNameSet |-> r.f[nm]]]

\* the struct literal of newForecastGridResponse: the fields it does not name
\* (ID, ValidTimes, WindSpeed) keep Go's zero value; a key missing from the
\* map reads as nil
MapGet(m, key) == IF key \in DOMAIN m THEN m[key] ELSE Nil

newForecastGridResponse(updated, elevation, tsMap) ==
  [ID |-> "",
   Updated |-> updated,
   ValidTimes |-> Nil,
   Elevation |-> elevation,
   Temperature |-> MapGet(tsMap, "Temperature"),
   SkyCover |-> MapGet(tsMap, "SkyCover"),
   WindSpeed |-> Nil,
   PrecipitationProbability |-> MapGet(tsMap, "PrecipitationProbability"),
   PrecipitationQuantity |-> MapGet(tsMap, "PrecipitationQuantity"),
   SnowFallAmount |-> MapGet(tsMap, "SnowFallAmount"),
   SnowLevel |-> MapGet(tsMap, "SnowLevel")]

-----------------------------------------------------------------------------
(* averageForecastTimeseries and AverageForecast (src/average.go).  The     *)
(* repository declares the method hourly twice, in src/average.go and in   *)
(* src/hourly.go; a package holds one of them, and the averaging calls the *)
(* one its build holds.                                                    *)

Builds == { "average.go", "hourly.go" }

\* fcst.hourly(tsMin, tsMax) in the build that takes hourly from that file
hourlyOf(build, ts, tMin, tMax) ==
  IF build = "average.go" THEN hourlyOfAverage(ts, tMin, tMax)
  ELSE hourly(ts, tMin, tMax)

\* x / N, N = float64(len(forecasts)) > 0
Quot(x, n) == quotient(x, n)

SeriesResult(status, err, ts) == [status |-> status, err |-> err, ts |-> ts]

\* avgValues[i] = {Time: elem.Time, Value: 0.0}
zeroValues(values) ==
  [e \in 1..Len(values) |-> [Time |-> values[e].Time, Value |-> Whole(0)]]

\* for e, elem := range fcstHourly.Values { time check; avgValues[e].Value += elem.Value / N }
RECURSIVE addValues(_, _, _, _)
addValues(avgValues, values, e, n) ==
  IF e > Len(values) THEN [avgValues |-> avgValues, ok |-> TRUE]
  ELSE IF values[e].Time # avgValues[e].Time THEN [avgValues |-> avgValues, ok |-> FALSE]
  ELSE addValues([avgValues EXCEPT ![e].Value = Plus(@, Quot(values[e].Value, n))],
                 values, e + 1, n)

\* for i, fcst := range forecasts { units check; hourly; length check; accumulate }
RECURSIVE accumulate(_, _, _, _, _, _, _)
accumulate(build, avgValues, tss, i, baseUnits, tsMin, tsMax) ==
  IF i > Len(tss) THEN SeriesResult("ok", "", Ptr(ForecastTimeseries("", "", baseUnits, avgValues)))
  ELSE LET fcst == Deref(tss[i])
       IN IF fcst.Units # baseUnits THEN SeriesResult("error", "units must match", Nil)
          ELSE Once(LAMBDA h :
                 IF h.status = "panic" THEN SeriesResult("panic", "", Nil)
                 ELSE IF h.status = "error"
                      THEN SeriesResult("error", "failed to convert forecast to hourly", Nil)
                 ELSE IF Len(Deref(h.ts).Values) # Len(avgValues)
                      THEN SeriesResult("error", "timeseries length must match", Nil)
                 ELSE Once(LAMBDA a :
                        IF ~a.ok THEN SeriesResult("error", "times must match", Nil)
                        ELSE accumulate(build, a.avgValues, tss, i + 1, baseUnits,
                                        tsMin, tsMax),
                        addValues(avgValues, Deref(h.ts).Values, 1, Len(tss))),
                 hourlyOf(build, fcst, tsMin, tsMax))

averageForecastTimeseries(build, key, tss, tsMin, tsMax) ==
  Once(LAMBDA b :
         IF b.status = "panic" THEN SeriesResult("panic", "", Nil)
         ELSE IF b.status = "error"
              THEN SeriesResult("error", "failed to convert forecast[0] to hourly", Nil)
         ELSE LET fcstBase == Deref(b.ts)
              IN accumulate(build, zeroValues(fcstBase.Values), tss, 1, fcstBase.Units,
                            tsMin, tsMax),
       hourlyOf(build, Deref(tss[1]), tsMin, tsMax))

\* resampling: the call got as far as the second loop, which hands the
\* window [tsMin, tsMax] to averageForecastTimeseries and hourly
AverageResult(status, err, fcst, fs, tsMin, tsMax, mean, resampling) ==
  [status |-> status, err |-> err, fcst |-> fcst, forecasts |-> fs,
   tsMin |-> tsMin, tsMax |-> tsMax, meanTimeseries |-> mean,
   resampling |-> resampling]

NoSeries == [nm \in {} |-> Nil]

\* the first loop of AverageForecast, from forecast i on: elevation units,
\* mean elevation, the debug line of the forecast (which reads ValidTimes),
\* timeseriesMap (which writes into forecast i), the debug line of each
\* series (which reads its first and last value), window.  What the debug
\* lines print is not part of the state.
RECURSIVE gather(_, _, _, _, _, _)
gather(fs, i, tsMin, tsMax, meanElevation, debug) ==
  IF i > Len(fs)
  THEN [status |-> "ok", err |-> "", fs |-> fs, tsMin |-> tsMin, tsMax |-> tsMax,
        meanElevation |-> meanElevation]
  ELSE LET fcst == fs[i]
       IN IF fcst.Elevation.Units # fs[1].Elevation.Units
          THEN [status |-> "error", err |-> "elevation units must match", fs |-> fs,
                tsMin |-> tsMin, tsMax |-> tsMax, meanElevation |-> meanElevation]
          ELSE Once(LAMBDA mean :
                 LET m == timeseriesMap(fcst)
                     filled == [fs EXCEPT ![i] = m.f]
                     panic(after) ==
                       [status |-> "panic", err |-> "", fs |-> after,
                        tsMin |-> tsMin, tsMax |-> tsMax, meanElevation |-> mean]
                 IN IF debug /\ IsNil(fcst.ValidTimes) THEN panic(fs)
                    ELSE IF m.panic THEN panic(filled)
                    ELSE IF debug /\ \E nm \in SeriesNameSet :
                                        Len(Deref(m.map[nm]).Values) = 0
                         THEN panic(filled)
                    ELSE IF IsNil(fcst.ValidTimes) THEN panic(filled)
                    ELSE LET vt == Deref(fcst.ValidTimes)
                         IN gather(filled, i + 1,
                                   IF vt.Time < tsMin THEN vt.Time ELSE tsMin,
                                   IF endTime(vt) > tsMax THEN endTime(vt) ELSE tsMax,
                                   mean, debug),
                 Plus(meanElevation, Quot(fcst.Elevation.Value, Len(fs))))

\* timeseriesArrays[k]: the series k of every forecast, in list order
timeseriesArrays(fs, k) == [i \in 1..Len(fs) |-> fs[i][k]]

\* a test that takes every list for non-empty
neverEmpty(fs) == FALSE

\* len(forecasts) == 0
noForecasts(fs) == Len(fs) = 0

\* Every outcome of AverageForecast(fs, debug) in a build.  Go ranges over the map
\* timeseriesArrays in an unspecified order and returns at the first series
\* that fails, so any failing series may be the one that ends the call.
AverageForecastOutcomes(build, fs, debug) ==
  IF noForecasts(fs)
  THEN { AverageResult("error", "no forecasts to average", Nil, fs, 0, 0, NoSeries, FALSE) }
  ELSE IF Len(fs) = 0 \/ IsNil(fs[1].Temperature)
          \/ Len(Deref(fs[1].Temperature).Values) = 0
  THEN { AverageResult("panic", "", Nil, fs, 0, 0, NoSeries, FALSE) }
  ELSE
    Once(LAMBDA g :
      IF g.status # "ok"
      THEN { AverageResult(g.status, g.err, Nil, g.fs, g.tsMin, g.tsMax, NoSeries,
                          FALSE) }
      ELSE Once(LAMBDA r :
             LET failing == { k \in SeriesNameSet : r[k].status # "ok" }
                 meanTimeseries == [k \in SeriesNameSet |-> r[k].ts]
             IN IF failing = {}
                THEN { AverageResult("ok", "",
                         Ptr(newForecastGridResponse(
                               fs[1].Updated,
                               forecastElevation(g.meanElevation, fs[1].Elevation.Units),
                               meanTimeseries)),
                         g.fs, g.tsMin, g.tsMax, meanTimeseries, TRUE) }
                ELSE { AverageResult(r[k].status, r[k].err, Nil, g.fs, g.tsMin, g.tsMax,
                                     NoSeries, TRUE) : k \in failing },
             [k \in SeriesNameSet |->
                averageForecastTimeseries(build, k, timeseriesArrays(g.fs, k),
                                          g.tsMin, g.tsMax)]),
      gather(fs, 1, Tmin(Deref(fs[1].Temperature)), Tmin(Deref(fs[1].Temperature)),
             Whole(0), debug))

-----------------------------------------------------------------------------
(* Strings (package strings, strconv).  A Go string is the sequence of its  *)
(* characters, each a one-character string.                                 *)

DigitChars == << "0", "1", "2", "3", "4", "5", "6", "7", "8", "9" >>

IsDigit(c) == \E i \in 1..Len(DigitChars) : DigitChars[i] = c

DigitValue(c) == (CHOOSE i \in 1..Len(DigitChars) : DigitChars[i] = c) - 1

\* the upper-case letters A..Z and their lower case (the texts read here are
\* ASCII)
LowerCase ==
  [A |-> "a", B |-> "b", C |-> "c", D |-> "d", E |-> "e", F |-> "f", G |-> "g",
   H |-> "h", I |-> "i", J |-> "j", K |-> "k", L |-> "l", M |-> "m", N |-> "n",
   O |-> "o", P |-> "p", Q |-> "q", R |-> "r", S |-> "s", T |-> "t", U |-> "u",
   V |-> "v", W |-> "w", X |-> "x", Y |-> "y", Z |-> "z"]

\* a membership test that takes "p" for "P" as well
ContainsAnyCase(s, c) ==
  \E i \in 1..Len(s) : s[i] = c \/ (c \in DOMAIN LowerCase /\ s[i] = LowerCase[c])

\* strings.Contains(s, c) for a one-character c
Contains(s, c) == \E i \in 1..Len(s) : s[i] = c

\* strings.ToLower
ToLower(s) ==
  [i \in 1..Len(s) |-> IF s[i] \in DOMAIN LowerCase THEN LowerCase[s[i]] ELSE s[i]]

\* strings.ReplaceAll(s, c, "") for a one-character c
RECURSIVE RemoveAll(_, _)
RemoveAll(s, c) ==
  IF Len(s) = 0 THEN << >>
  ELSE IF Head(s) = c THEN RemoveAll(Tail(s), c)
  ELSE << Head(s) >> \o RemoveAll(Tail(s), c)

\* strings.Split(s, c) for a one-character c: the pieces between the c's
RECURSIVE SplitFrom(_, _, _, _)
SplitFrom(s, c, i, piece) ==
  IF i > Len(s) THEN << piece >>
  ELSE IF s[i] = c THEN << piece >> \o SplitFrom(s, c, i + 1, << >>)
  ELSE SplitFrom(s, c, i + 1, Append(piece, s[i]))

Split(s, c) == SplitFrom(s, c, 1, << >>)

\* fmt.Sprintf("%d", n) for n >= 0: the decimal digits of n
RECURSIVE Digits(_)
Digits(n) ==
  IF n < 10 THEN << DigitChars[n + 1] >>
  ELSE Digits(n \div 10) \o << DigitChars[(n % 10) + 1] >>

\* strconv.Atoi of a string of decimal digits
RECURSIVE Atoi(_)
Atoi(s) ==
  IF Len(s) = 0 THEN 0
  ELSE 10 * Atoi(SubSeq(s, 1, Len(s) - 1)) + DigitValue(s[Len(s)])

\* strings.ReplaceAll(s, old, new) for a non-empty old
RECURSIVE ReplaceAll(_, _, _)
ReplaceAll(s, old, new) ==
  IF Len(s) < Len(old) THEN s
  ELSE IF SubSeq(s, 1, Len(old)) = old
       THEN new \o ReplaceAll(SubSeq(s, Len(old) + 1, Len(s)), old, new)
       ELSE << Head(s) >> \o ReplaceAll(Tail(s), old, new)

\* strings.HasSuffix
HasSuffix(s, suffix) ==
  Len(s) >= Len(suffix) /\ SubSeq(s, Len(s) - Len(suffix) + 1, Len(s)) = suffix

-----------------------------------------------------------------------------
(* CreateForecastHourly (src/hourly.go)                                     *)

\* the characters of the unit codes of the forecasts
Chars(u) ==
  CASE u = "wmoUnit:degC" -> << "w","m","o","U","n","i","t",":","d","e","g","C" >>
    [] u = "wmoUnit:degF" -> << "w","m","o","U","n","i","t",":","d","e","g","F" >>
    [] u = "wmoUnit:m"    -> << "w","m","o","U","n","i","t",":","m" >>
    [] u = "wmoUnit:ft"   -> << "w","m","o","U","n","i","t",":","f","t" >>
    [] u = ""             -> << >>

\* the three nested strings.ReplaceAll of the units (the match is case
\* sensitive: "unit:" is not found in "wmoUnit:")
shortUnits(u) ==
  ReplaceAll(ReplaceAll(ReplaceAll(Chars(u), << "u","n","i","t",":" >>, << >>),
                        << "m","_","s","-","1" >>, << "m","/","s" >>),
             << "d","e","g","C" >>, << "C" >>)

\* math.Round(v*10) / 10
roundTenth(v) == Quot(Round(Times(v, 10)), 10)

knownElevationUnits(u) == HasSuffix(ToLower(Chars(u)), << "u","n","i","t",":","m" >>)

ForecastHourly(createdAt, elevationMeters, endpoint, times, units, values) ==
  [CreatedAt |-> createdAt, ElevationMeters |-> elevationMeters,
   Endpoint |-> endpoint, Times |-> times, SeriesNames |-> seriesNames,
   Units |-> units, Values |-> values]

CreateResult(status, err, g, fcst) ==
  [status |-> status, err |-> err, grid |-> g, fcst |-> fcst]

\* the outcomes of CreateForecastHourly(grid): the map of the series is
\* ranged over in an order Go does not fix, so when several series fail to
\* resample, any of them may be the one that ends the call.
CreateForecastHourlyOutcomes(g) ==
  LET m == timeseriesMap(g)
  IN IF m.panic \/ IsNil(g.ValidTimes)
     THEN { CreateResult("panic", "", m.f, Nil) }
     ELSE
       LET vt == Deref(g.ValidTimes)
           r == [k \in SeriesNameSet |-> hourly(Deref(m.map[k]), vt.Time, endTime(vt))]
           failing == { k \in SeriesNameSet : r[k].status # "ok" }
           hourlyTimeseries == [k \in SeriesNameSet |-> Deref(r[k].ts)]
       IN IF failing # {}
          THEN { CreateResult(r[k].status, r[k].err, m.f, Nil) : k \in failing }
          ELSE
            LET temperature == hourlyTimeseries["Temperature"].Values
                times == [j \in 1..Len(temperature) |-> temperature[j].Time.Time]
                tooLong == \E k \in SeriesNameSet :
                              Len(hourlyTimeseries[k].Values) > Len(times)
                units == [i \in 1..Len(seriesNames) |->
                            shortUnits(hourlyTimeseries[seriesNames[i]].Units)]
                values == [i \in 1..Len(seriesNames) |->
                             [j \in 1..Len(times) |->
                                LET v == hourlyTimeseries[seriesNames[i]].Values
                                IN IF j <= Len(v) THEN roundTenth(v[j].Value)
                                   ELSE Whole(0)]]
            IN IF tooLong THEN { CreateResult("panic", "", m.f, Nil) }
               ELSE IF ~knownElevationUnits(g.Elevation.Units)
                    THEN { CreateResult("error", "unknown elevation units", m.f, Nil) }
               ELSE { CreateResult("ok", "", m.f,
                        Ptr(ForecastHourly(g.Updated, meters, g.ID, times, units, values))) :
                        meters \in Trunc(g.Elevation.Value) }

-----------------------------------------------------------------------------
(* parseDuration and ForecastTime.UnmarshalJSON (src/unnamed/part_005)      *)

\* time.Minute, as a count of minutes
Minute == 1

\* the minutes of one hour
MinutesPerHour == 60

\* the hours of one day (durIntDays*24)
HoursPerDay == 24

\* the number of digits of s from position p on
RECURSIVE DigitRun(_, _)
DigitRun(s, p) ==
  IF p <= Len(s) /\ IsDigit(s[p]) THEN 1 + DigitRun(s, p + 1) ELSE 0

\* one group ([0-9]+u)? of the pattern, tried at position p: the digits and
\* the unit letter when they are there, the empty string otherwise
NumberGroup(s, p, u) ==
  LET n == DigitRun(s, p)
  IN IF n > 0 /\ p + n <= Len(s) /\ s[p + n] = u THEN SubSeq(s, p, p + n) ELSE << >>

\* durationRegex.FindStringSubmatch(s) for ([0-9]d)?t?([0-9]+h)?([0-9]+m)?
\* Every part of the pattern is optional, so the pattern matches (perhaps the
\* empty string) at the first position of s, and the leftmost match is the
\* one found; each part takes its text when it is there.  The result holds
\* the whole match and the three groups.
durationRegex(s) ==
  LET g1 == IF Len(s) >= 2 /\ IsDigit(s[1]) /\ s[2] = "d" THEN SubSeq(s, 1, 2) ELSE << >>
      p1 == 1 + Len(g1)
      t == IF p1 <= Len(s) /\ s[p1] = "t" THEN << "t" >> ELSE << >>
      p2 == p1 + Len(t)
      g2 == NumberGroup(s, p2, "h")
      p3 == p2 + Len(g2)
      g3 == NumberGroup(s, p3, "m")
  IN << g1 \o t \o g2 \o g3, g1, g2, g3 >>

\* the largest count of hours time.ParseDuration takes: (1<<63) / time.Hour
MaxInt64Hours == 2562047

\* the largest count of minutes it takes: (1<<63) / time.Minute
MaxInt64Minutes == 153722867

\* the number the digits s write, or MaxInt64Minutes + 1 when they write a
\* larger one (time.ParseDuration refuses every count above MaxInt64Minutes)
RECURSIVE leadingInt(_)
leadingInt(s) ==
  IF Len(s) = 0 THEN 0
  ELSE LET high == leadingInt(SubSeq(s, 1, Len(s) - 1))
       IN IF high > MaxInt64Minutes \div 10 THEN MaxInt64Minutes + 1
          ELSE Min(10 * high + DigitValue(s[Len(s)]), MaxInt64Minutes + 1)

\* time.ParseDuration of digits followed by "h" or "m": the duration as a
\* count of minutes, or the error "invalid duration" when the count times
\* the unit is more nanoseconds than an int64 holds
timeParseDuration(s) ==
  LET n == leadingInt(SubSeq(s, 1, Len(s) - 1))
      hours == s[Len(s)] = "h"
  IN IF n > (IF hours THEN MaxInt64Hours ELSE MaxInt64Minutes)
     THEN [ok |-> FALSE, minutes |-> 0]
     ELSE [ok |-> TRUE,
           minutes |-> IF hours THEN n * MinutesPerHour * Minute ELSE n * Minute]

\* The time.Duration reached by adding h whole hours to zero: an int64 of
\* nanoseconds.  It holds MaxInt64Hours hours; a larger sum wraps, and the
\* value is h * time.Hour - 2^64 nanoseconds, which is negative.  The sums
\* of parseDuration stay below 2^64 nanoseconds, so they wrap once at most.
Duration(h) == [hours |-> h, wraps |-> IF h > MaxInt64Hours THEN 1 ELSE 0]

DurationResult(status, dur) == [status |-> status, dur |-> dur]

\* parseDuration(t): the duration (a nil duration reads as Nil)
parseDuration(t) ==
  IF ~Contains(t, "P") THEN DurationResult("error", Nil)
  ELSE IF Len(Split(t, "P")) < 2 THEN DurationResult("panic", Nil)
  ELSE
    LET durStr == ToLower(Split(t, "P")[2])
        matches == durationRegex(durStr)
        none == [ok |-> TRUE, minutes |-> 0]
        durIntDays == Atoi(RemoveAll(matches[2], "d"))
        durDays == IF Len(matches[2]) > 0
                   THEN timeParseDuration(Digits(durIntDays * HoursPerDay) \o << "h" >>)
                   ELSE none
        durHours == IF Len(matches[3]) > 0
                    THEN timeParseDuration(RemoveAll(matches[3], "t"))
                    ELSE none
        durMinutes == IF Len(matches[4]) > 0 THEN timeParseDuration(matches[4]) ELSE none
        roundUp == IF durMinutes.minutes >= 1 * Minute THEN Hour ELSE 0
    IN IF ~durDays.ok \/ ~durHours.ok \/ ~durMinutes.ok
       THEN DurationResult("error", Nil)
       ELSE DurationResult("ok",
              Ptr(Duration((durDays.minutes \div (MinutesPerHour * Minute)) * Hour
                             + (durHours.minutes \div (MinutesPerHour * Minute)) * Hour
                             + roundUp)))

\* the whole of tBase, minutes and seconds kept
wholeInstant(tBase) == tBase

\* strings.Split(tBase, ":")[0]: tBase without its minutes and seconds
hourPrefix(tBase) == Split(tBase, ":")[1]

\* the days from 1970-01-01 to the day d of month m of year y (proleptic
\* Gregorian calendar)
daysFromCivil(y, m, d) ==
  LET yy == IF m <= 2 THEN y - 1 ELSE y
      era == yy \div 400
      yoe == yy - era * 400
      mp == (m + 9) % 12
      doy == (153 * mp + 2) \div 5 + d - 1
      doe == yoe * 365 + yoe \div 4 - yoe \div 100 + doy
  IN era * 146097 + doe - 719468

isLeap(y) == y % 4 = 0 /\ (y % 100 # 0 \/ y % 400 = 0)

daysIn(m, y) ==
  IF m = 2 THEN (IF isLeap(y) THEN 29 ELSE 28)
  ELSE IF m \in { 4, 6, 9, 11 } THEN 30 ELSE 31

\* the instant times are counted from: 2020-08-01T00:00:00Z
EpochDay == daysFromCivil(2020, 8, 1)

SecondsPerHour == 3600

\* time.Parse(time.RFC3339, s): year, month, day, minute and second of fixed
\* width, the hour of one or two digits, an optional fraction of a second,
\* and the zone "Z" or a signed hh:mm; nothing may follow.  The instant is
\* returned as the whole hours since the epoch (time) and the seconds past
\* that hour (rest).
timeParse(s) ==
  LET bad == [ok |-> FALSE, time |-> 0, rest |-> 0]
      digitsAt(p, n) == p + n - 1 <= Len(s) /\ \A i \in p..(p + n - 1) : IsDigit(s[i])
      charAt(p, c) == p <= Len(s) /\ s[p] = c
      num(p, n) == Atoi(SubSeq(s, p, p + n - 1))
  IN IF ~( /\ digitsAt(1, 4) /\ charAt(5, "-") /\ digitsAt(6, 2) /\ charAt(8, "-")
           /\ digitsAt(9, 2) /\ charAt(11, "T") /\ digitsAt(12, 1) )
     THEN bad
     ELSE
       LET hlen == IF digitsAt(12, 2) THEN 2 ELSE 1
           pm == 12 + hlen
       IN IF ~( /\ charAt(pm, ":") /\ digitsAt(pm + 1, 2)
                /\ charAt(pm + 3, ":") /\ digitsAt(pm + 4, 2) )
          THEN bad
          ELSE
            LET pf == pm + 6
                frac == IF (charAt(pf, ".") \/ charAt(pf, ",")) /\ digitsAt(pf + 1, 1)
                        THEN 1 + DigitRun(s, pf + 1) ELSE 0
                pz == pf + frac
                utc == charAt(pz, "Z")
                numeric == /\ charAt(pz, "+") \/ charAt(pz, "-")
                           /\ digitsAt(pz + 1, 2) /\ charAt(pz + 3, ":")
                           /\ digitsAt(pz + 4, 2)
                zlen == IF utc THEN 1 ELSE 6
                year == num(1, 4)
                month == num(6, 2)
                day == num(9, 2)
                hour == num(12, hlen)
                min == num(pm + 1, 2)
                sec == num(pm + 4, 2)
            IN IF ~( /\ utc \/ numeric
                     /\ pz + zlen - 1 = Len(s)
                     /\ month \in 1..12
                     /\ day \in 1..daysIn(month, year)
                     /\ hour \in 0..23 /\ min \in 0..59 /\ sec \in 0..59
                     /\ utc \/ (num(pz + 1, 2) <= 24 /\ num(pz + 4, 2) <= 60) )
               THEN bad
               ELSE
                 LET offset == IF utc THEN 0
                               ELSE (IF s[pz] = "-" THEN -1 ELSE 1)
                                      * (num(pz + 1, 2) * 3600 + num(pz + 4, 2) * 60)
                     seconds == ((daysFromCivil(year, month, day) - EpochDay) * HoursPerDay
                                   + hour) * SecondsPerHour + min * 60 + sec - offset
                 IN [ok |-> TRUE,
                     time |-> (seconds \div SecondsPerHour) * Hour,
                     rest |-> seconds % SecondsPerHour]

UnmarshalResult(status, t) == [status |-> status, t |-> t]

\* t.UnmarshalJSON(buf): the ForecastTime written, or an error that leaves t as
\* it was (the zero ForecastTime)
UnmarshalJSON(buf) ==
  LET ttStr == RemoveAll(buf, "\"")
      tBase == hourPrefix(Split(ttStr, "+")[1]) \o << ":", "0", "0", ":", "0", "0", "Z" >>
      tt == timeParse(tBase)
  IN IF ~tt.ok THEN UnmarshalResult("error", ForecastTime(0, Duration(0)))
     ELSE LET dur == parseDuration(ttStr)
          IN IF dur.status # "ok"
             THEN UnmarshalResult(dur.status, ForecastTime(0, Duration(0)))
             ELSE UnmarshalResult("ok", ForecastTime(tt.time, Deref(dur.dur)))

-----------------------------------------------------------------------------
(* Points and its cache (src/unnamed/part_003).  The weather.gov server is  *)
(* the environment: a request ends with a transport error, a status other   *)
(* than 200, or a 200 whose body is a points document, the JSON null, or    *)
(* text that does not decode.                                               *)

API == "https://api.weather.gov"

\* fmt.Sprintf("%s/points/%s,%s", API, lat, lon)
endpoint(lat, lon) == API \o "/points/" \o lat \o "," \o lon

\* the decoded document; addr tells one decoded object from another
PointsResponse(id, addr) == [ID |-> id, addr |-> addr]

\* a lookup that never finds an entry
neverCached(cache, e) == Nil

\* pointsCache[endpoint]: nil for a key the map does not hold
cached(cache, e) == IF e \in DOMAIN cache THEN cache[e] ELSE Nil

\* pointsCache[endpoint] = points
store(cache, e, points) == [k \in DOMAIN cache \cup { e } |-> IF k = e THEN points ELSE cache[k]]

\* what apiCall and decoder.Decode make of one exchange with the server
ApiErrors == { "transport", "404", "500" }

BodyKinds == { "document", "null", "undecodable" }

ApiOutcomes == ApiErrors \cup BodyKinds

\* the coordinates the server has a grid point for
Covered == { << "64.828421", "-147.7390417" >>, << "47.6062", "-122.3321" >> }

\* blank, zero and non-U.S. coordinates
NotCovered == { << "", "" >>, << "", "-147.7390417" >>, << "0", "0" >>, << "48.85660", "2.3522" >> }

Coordinates == Covered \cup NotCovered

\* the outcomes the server can give for a pair of coordinates
ServerOutcomes(c) == IF c \in Covered THEN ApiOutcomes ELSE { "404" }

PointsResult(points, err, cache, outcome) ==
  [points |-> points, err |-> err, cache |-> cache, outcome |-> outcome]

\* what decoder.Decode(&points) leaves in points
decoded(e, outcome, addr) ==
  IF outcome = "document" THEN Ptr(PointsResponse(e, addr)) ELSE Nil

\* a call that stores what it has after every exchange, failed or not
cacheAfterStoring(cache, e, outcome, addr) == store(cache, e, Ptr(PointsResponse(e, addr)))

\* the cache after a call that went to the server: pointsCache[endpoint] = points
\* is reached only when apiCall and Decode returned no error
cacheAfter(cache, e, outcome, addr) ==
  IF outcome \in { "document", "null" } THEN store(cache, e, decoded(e, outcome, addr))
  ELSE cache

\* Points after apiCall has returned (lines 330-341): the error of apiCall or
\* of Decode, or the decoded response, stored and returned
received(cache, e, outcome, addr) ==
  LET after == cacheAfter(cache, e, outcome, addr)
  IN IF outcome \in ApiErrors
     THEN PointsResult(Nil, outcome \o ": data not found", after, outcome)
     ELSE IF outcome = "undecodable"
     THEN PointsResult(Nil, "invalid character", after, outcome)
     ELSE PointsResult(decoded(e, outcome, addr), "", after, outcome)

\* Points(lat, lon) run from its first line to its return with no other call
\* in between, the server answering outcome; addr is where the decoder puts
\* a document
Points(cache, lat, lon, outcome, addr) ==
  LET e == endpoint(lat, lon)
  IN IF ~IsNil(cached(cache, e))
     THEN PointsResult(cached(cache, e), "", cache, "cached")
     ELSE received(cache, e, outcome, addr)

\* the functions that call Points and then send a request of their own, and
\* GetEndpointGridForecast, which only sends a request
PointsCallers == { "Stations", "Forecast", "ForecastDetailed" }

\* what a function does once its Points call has returned r: Points itself
\* returns; the others return the error, or read an endpoint of the response
\* (a nil dereference when Points returned nil with a nil error) and send
\* their request
afterPoints(op, r) ==
  IF r.err # "" THEN "error"
  ELSE IF op = "Points" THEN "ok"
  ELSE IF IsNil(r.points) THEN "panic"
  ELSE "request"

\* Stations after its apiCall: the error of apiCall or Decode, else the
\* stations (nil for a null body)
Stations(outcome) ==
  IF outcome \in ApiErrors \cup { "undecodable" } THEN "error" ELSE "ok"

\* Forecast after its apiCall: forecast.Point = point writes through the
\* pointer Decode filled, which a null body leaves nil
Forecast(outcome) ==
  IF outcome \in ApiErrors \cup { "undecodable" } THEN "error"
  ELSE IF outcome = "null" THEN "panic"
  ELSE "ok"

\* GetEndpointGridForecast after its apiCall: the error of apiCall or
\* Unmarshal, else the address of a forecast (a null body leaves it zero)
GetEndpointGridForecast(outcome) ==
  IF outcome \in ApiErrors \cup { "undecodable" } THEN "error" ELSE "ok"

\* return GetEndpointGridForecast(point.EndpointForecasGrid)
ForecastDetailed(outcome) == GetEndpointGridForecast(outcome)

\* how the call op ends when the answer to its own request is outcome
followUp(op, outcome) ==
  CASE op = "Stations" -> Stations(outcome)
    [] op = "Forecast" -> Forecast(outcome)
    [] op = "ForecastDetailed" -> ForecastDetailed(outcome)
    [] op = "GetEndpointGridForecast" -> GetEndpointGridForecast(outcome)

\* the goroutines of the program that call into the package: it starts none
\* itself and takes no lock, so its callers may run side by side
Goroutines == { "g1", "g2" }

-----------------------------------------------------------------------------
(* The state before any call, and the variables of each part *)

hourlyVars == <<series, hourlyRet>>

averageVars == <<forecasts, avgRet>>

createVars == <<grid, createRet>>

parseVars == <<text, parseRet, unmarshalRet>>

pointsVars == <<pointsCache, apiRequests, pointsRet, calls, program>>

NoHourlyCall ==
  [called |-> FALSE, tMin |-> 0, tMax |-> 0, status |-> "", err |-> "", ts |-> Nil]

NoAverageCall ==
  [called |-> FALSE, build |-> "", debug |-> FALSE, status |-> "", err |-> "",
   fcst |-> Nil,
   tsMin |-> 0, tsMax |-> 0,
   meanTimeseries |-> NoSeries, resampling |-> FALSE]

NoCreateCall == [called |-> FALSE, status |-> "", err |-> "", fcst |-> Nil]

NoParseCall == [called |-> FALSE, status |-> "", dur |-> Nil]

NoUnmarshalCall == [called |-> FALSE, status |-> "", t |-> ForecastTime(0, Duration(0))]

NoPointsCall ==
  [called |-> FALSE, seq |-> 0, lat |-> "", lon |-> "", points |-> Nil, err |-> "",
   outcome |-> ""]

\* a goroutine that is in none of the calls; status is how its last call ended
IdleCall(status) == [pc |-> "idle", op |-> "", lat |-> "", lon |-> "", status |-> status]

NoCalls == [g \in Goroutines |-> IdleCall("")]

\* the process runs, and no two calls have been in progress at once
Running == [state |-> "running", concurrent |-> FALSE]

EmptyCache == [k \in {} |-> Nil]

NoRequests == [c \in Coordinates |-> [issued |-> 0, documents |-> 0]]

\* hourly is not being called
HourlyIdle ==
  /\ series = ForecastTimeseries("", "", "", << >>)
  /\ hourlyRet = NoHourlyCall

\* AverageForecast is not being called
AverageIdle ==
  /\ forecasts = << >>
  /\ avgRet = NoAverageCall

\* CreateForecastHourly is not being called
CreateIdle ==
  /\ grid = Nil
  /\ createRet = NoCreateCall

\* no text is being parsed
ParseIdle ==
  /\ text = << >>
  /\ parseRet = NoParseCall
  /\ unmarshalRet = NoUnmarshalCall

\* Points has not been called
PointsIdle ==
  /\ pointsCache = EmptyCache
  /\ apiRequests = NoRequests
  /\ pointsRet = NoPointsCall
  /\ calls = NoCalls
  /\ program = Running

-----------------------------------------------------------------------------
(* Inputs of a direct hourly call: every series with at most MaxLen values,  *)
(* instants in 0..MaxT strictly ascending, spans of 0..MaxDur hours that do  *)
(* not overlap, and values in 1..MaxVal; every window tMin <= tMax in 0..MaxT *)

MaxT == 4

MaxLen == 2

MaxDur == 2

MaxVal == 2

SampleValues ==
  { ForecastTimeseriesValue(t, d, Whole(v)) :
      t \in 0..MaxT, d \in 0..MaxDur, v \in 1..MaxVal }

\* values sorted ascending by instant, spans never overlapping
IsOrdered(values) ==
  \A k \in 1..(Len(values) - 1) :
     /\ values[k].Time.Time < values[k + 1].Time.Time
     /\ endTime(values[k].Time) <= values[k + 1].Time.Time

\* every series of at most n values that is ordered, built value by value
RECURSIVE OrderedValues(_)
OrderedValues(n) ==
  IF n = 0 THEN { << >> }
  ELSE LET shorter == OrderedValues(n - 1)
       IN shorter \cup
          UNION { { Append(s, x) : x \in { y \in SampleValues : IsOrdered(Append(s, y)) } } :
                    s \in { q \in shorter : Len(q) = n - 1 } }

SeriesInputs ==
  { ForecastTimeseries("Temperature", "ep0", "wmoUnit:degC", vs) :
      vs \in OrderedValues(MaxLen) }

InitHourly ==
  /\ series \in SeriesInputs
  /\ hourlyRet = NoHourlyCall
  /\ AverageIdle
  /\ CreateIdle
  /\ ParseIdle
  /\ PointsIdle

\* ts.hourly(tMin, tMax) on the series, for any window tMin <= tMax; a
\* behaviour is one call and its return
CallHourly ==
  \E tMin \in 0..MaxT, tMax \in 0..MaxT :
     /\ ~hourlyRet.called
     /\ tMin <= tMax
     /\ LET r == hourly(series, tMin, tMax)
        IN hourlyRet' = [called |-> TRUE, tMin |-> tMin, tMax |-> tMax,
                         status |-> r.status, err |-> r.err, ts |-> r.ts]
     /\ UNCHANGED <<series, averageVars, createVars, parseVars, pointsVars>>

NextHourly == CallHourly

SpecHourly == InitHourly /\ [][NextHourly]_vars

-----------------------------------------------------------------------------
(* Inputs of AverageForecast: lists of up to two decoded grid forecasts,    *)
(* and the lists of three plain ones.  A forecast comes from one of two     *)
(* endpoints, which fixes its ID, update time, advertised window, elevation *)
(* and value level.  Six of its series are dense over the advertised        *)
(* window; one series (Temperature, WindSpeed or SnowLevel) has a drawn     *)
(* shape: dense, starting an hour early or late, with an inner gap, with a  *)
(* value far past the window, running past the window's end, absent (the    *)
(* document had no such property and the pointer stays nil) or empty (the   *)
(* property had no values).  A document without validTimes leaves the       *)
(* ValidTimes pointer nil.  Decoded series carry no Name and no ID.         *)

\* ValidTimes.Duration of every input, in hours
ValidHours == 3

\* the gap before the far value of the "beyond" shape, in hours past the window
FarGap == 3

Endpoints == { "SEW", "OTX" }

EndpointStart == [SEW |-> 1, OTX |-> 2]

\* the two values an endpoint reports: SEW whole numbers (2 and 4), OTX
\* quarters (6.25 and 8.25)
EndpointLow == [SEW |-> Whole(2), OTX |-> Scaled(25, -2)]

EndpointHigh == [SEW |-> Whole(4), OTX |-> Scaled(33, -2)]

EndpointElevation == [SEW |-> Whole(100), OTX |-> Scaled(603, -1)]

EndpointUpdated == [SEW |-> "2020-08-19T03:00", OTX |-> "2020-08-19T04:00"]

Shapes == { "dense", "early", "late", "gapped", "beyond", "long", "absent" }

OddNames == { "Temperature", "WindSpeed", "SnowLevel" }

UnitVariants == { "same", "elevation", "series" }

\* the values of a series of shape sh in a forecast advertised from vt on
ShapeValues(sh, vt, a, b) ==
  CASE sh = "dense"  -> << ForecastTimeseriesValue(vt, ValidHours - 1, a),
                           ForecastTimeseriesValue(vt + ValidHours - 1, 1, b) >>
    [] sh = "early"  -> << ForecastTimeseriesValue(vt - 1, 1, a),
                           ForecastTimeseriesValue(vt, ValidHours, b) >>
    [] sh = "late"   -> << ForecastTimeseriesValue(vt + 1, 1, a) >>
    [] sh = "gapped" -> << ForecastTimeseriesValue(vt, 1, a),
                           ForecastTimeseriesValue(vt + 2, 1, b) >>
    [] sh = "beyond" -> << ForecastTimeseriesValue(vt, 1, a),
                           ForecastTimeseriesValue(vt + ValidHours + FarGap, 1, b) >>
    [] sh = "long"   -> << ForecastTimeseriesValue(vt, ValidHours + 2, a) >>
    [] sh = "empty"  -> << >>
    [] sh = "zero"   -> << ForecastTimeseriesValue(vt - 1, 0, a),
                           ForecastTimeseriesValue(vt, ValidHours + 1, b) >>

DecodedForecast(ep, odd, sh, uv) ==
  LET vt == EndpointStart[ep]
      ser(nm) ==
        IF nm = odd /\ sh = "absent" THEN Nil
        ELSE Ptr(ForecastTimeseries("", "",
                   IF nm = odd /\ uv = "series" THEN "wmoUnit:degF" ELSE "wmoUnit:degC",
                   ShapeValues(IF nm = odd THEN sh ELSE "dense", vt,
                               EndpointLow[ep], EndpointHigh[ep])))
  IN [ID |-> ep,
      Updated |-> EndpointUpdated[ep],
      ValidTimes |-> Ptr(ForecastTime(vt, ValidHours)),
      Elevation |-> forecastElevation(EndpointElevation[ep],
                       IF uv = "elevation" THEN "wmoUnit:ft" ELSE "wmoUnit:m"),
      Temperature |-> ser("Temperature"),
      SkyCover |-> ser("SkyCover"),
      WindSpeed |-> ser("WindSpeed"),
      PrecipitationProbability |-> ser("PrecipitationProbability"),
      PrecipitationQuantity |-> ser("PrecipitationQuantity"),
      SnowFallAmount |-> ser("SnowFallAmount"),
      SnowLevel |-> ser("SnowLevel")]

\* a forecast whose six other series are dense too
Plain(ep) == DecodedForecast(ep, "Temperature", "dense", "same")

\* the forecast decoded from a document without validTimes
Unadvertised(f) == [f EXCEPT !.ValidTimes = Nil]

ForecastInputs ==
  { DecodedForecast(ep, odd, sh, uv) :
      ep \in Endpoints, odd \in OddNames, sh \in Shapes, uv \in UnitVariants }
    \cup { DecodedForecast(ep, odd, sh, "same") :
              ep \in Endpoints, odd \in OddNames, sh \in { "empty", "zero" } }
    \cup { Unadvertised(Plain(ep)) : ep \in Endpoints }

PlainTriples == { << Plain(a), Plain(b), Plain(c) >> : a, b, c \in Endpoints }

ForecastLists ==
  { << >> } \cup { <<f>> : f \in ForecastInputs } \cup (ForecastInputs \X ForecastInputs)
    \cup PlainTriples

\* the build is fixed before the first call
Init ==
  /\ forecasts \in ForecastLists
  /\ avgRet \in { [NoAverageCall EXCEPT !.build = b] : b \in Builds }
  /\ CreateIdle
  /\ HourlyIdle
  /\ ParseIdle
  /\ PointsIdle

\* AverageForecast(forecasts, debug), on the decoded list: the call writes
\* Name and ID into the series of the forecasts it was given and returns a
\* forecast or an error, or the process ends in a panic
CallAverageForecast ==
  /\ ~avgRet.called
  /\ \E debug \in BOOLEAN :
        \E r \in AverageForecastOutcomes(avgRet.build, forecasts, debug) :
           /\ avgRet' = [called |-> TRUE, build |-> avgRet.build, debug |-> debug,
                         status |-> r.status, err |-> r.err, fcst |-> r.fcst,
                         tsMin |-> r.tsMin, tsMax |-> r.tsMax,
                         meanTimeseries |-> r.meanTimeseries,
                         resampling |-> r.resampling]
           /\ forecasts' = r.forecasts
  /\ UNCHANGED <<hourlyVars, createVars, parseVars, pointsVars>>

Next == CallAverageForecast

Spec == Init /\ [][Next]_vars

-----------------------------------------------------------------------------
(* CreateForecastHourly on one decoded grid forecast of the family above    *)

InitCreate ==
  /\ grid \in { Ptr(f) : f \in ForecastInputs }
  /\ createRet = NoCreateCall
  /\ HourlyIdle
  /\ AverageIdle
  /\ ParseIdle
  /\ PointsIdle

\* CreateForecastHourly(grid): the call writes Name and ID into the series
\* of the grid forecast and returns an hourly forecast or an error
CallCreateForecastHourly ==
  /\ ~createRet.called
  /\ \E r \in CreateForecastHourlyOutcomes(Deref(grid)) :
        /\ createRet' = [called |-> TRUE, status |-> r.status, err |-> r.err,
                         fcst |-> r.fcst]
        /\ grid' = Ptr(r.grid)
  /\ UNCHANGED <<hourlyVars, averageVars, parseVars, pointsVars>>

NextCreate == CallCreateForecastHourly

SpecCreate == InitCreate /\ [][NextCreate]_vars

-----------------------------------------------------------------------------
(* Inputs of parseDuration and UnmarshalJSON: ISO-8601 designators written  *)
(* from optional day, hour, minute and second counts, alone or after an     *)
(* "<instant>+00:00/" prefix, texts without the P marker, and quoted        *)
(* composite values as they stand in the JSON of a forecast.                *)

\* the largest day count written
MaxDays == 10

\* the largest hour count written
MaxHourCount == 11

\* the largest minute count written
MaxMinuteCount == 61

\* n written with two digits
TwoDigits(n) == << DigitChars[(n \div 10) + 1], DigitChars[(n % 10) + 1] >>

\* a count (absent: Nil) followed by its unit letter
Component(count, u) == IF IsNil(count) THEN << >> ELSE Digits(Deref(count)) \o << u >>

\* P[nD][T[nH][nM][nS]]
Designator(d, h, m, s) ==
  << "P" >> \o Component(d, "D")
            \o (IF IsNil(h) /\ IsNil(m) /\ IsNil(s) THEN << >> ELSE << "T" >>)
            \o Component(h, "H") \o Component(m, "M") \o Component(s, "S")

\* 2020-08-DDTHH:MM:SS
InstantText(day, hh, mm, ss) ==
  << "2", "0", "2", "0", "-", "0", "8", "-" >> \o TwoDigits(day) \o << "T" >>
    \o TwoDigits(hh) \o << ":" >> \o TwoDigits(mm) \o << ":" >> \o TwoDigits(ss)

\* <instant>+00:00/
InstantPrefix(day, hh, mm, ss) ==
  InstantText(day, hh, mm, ss) \o << "+", "0", "0", ":", "0", "0", "/" >>

DayCounts == { Nil } \cup { Ptr(d) : d \in 0..MaxDays }

HourCounts == { Nil } \cup { Ptr(h) : h \in 0..MaxHourCount }

MinuteCounts == { Nil } \cup { Ptr(m) : m \in { 0, 1, 59, 60, MaxMinuteCount } }

SecondCounts == { Nil, Ptr(34) }

\* the prefixes a designator is given after: none, or an instant and "/"
Prefixes == { << >>, InstantPrefix(27, 9, 0, 0) }

Designators ==
  { Designator(d, h, m, s) :
      d \in DayCounts, h \in HourCounts, m \in MinuteCounts, s \in SecondCounts }

\* texts without the P marker: designators in lower case or with the marker
\* left out, the empty text, an instant alone
NoMarkerTexts ==
  { ToLower(Designator(d, h, Nil, Nil)) : d \in { Nil, Ptr(1) }, h \in { Nil, Ptr(3) } }
    \cup { RemoveAll(Designator(d, h, Nil, Nil), "P") : d \in { Nil, Ptr(1) }, h \in { Nil, Ptr(3) } }
    \cup { InstantText(19, 4, 0, 0) }

InstantDays == { 1, 19 }

InstantHours == { 0, 9, 23 }

InstantMinutes == { 0, 1, 30, 59 }

InstantSeconds == { 0, 30, 59 }

\* the designators of the composite values
CompositeDesignators ==
  { Designator(d, h, m, s) :
      d \in { Nil, Ptr(1) }, h \in { Nil, Ptr(6) }, m \in { Nil, Ptr(16) }, s \in SecondCounts }

\* "<instant>+00:00/<designator>", in its JSON quotes
Composite(day, hh, mm, ss, des) ==
  << "\"" >> \o InstantPrefix(day, hh, mm, ss) \o des \o << "\"" >>

CompositeTexts ==
  { Composite(day, hh, mm, ss, des) :
      day \in InstantDays, hh \in InstantHours, mm \in InstantMinutes,
      ss \in InstantSeconds, des \in CompositeDesignators }

\* the UTC offsets written after an instant: a sign and a count of hours
Offsets == { << "-", 8 >>, << "+", 5 >> }

OffsetHours == { 4, 20 }

\* "<instant><sign>hh:00/<designator>", in its JSON quotes
OffsetComposite(day, hh, off, des) ==
  << "\"" >> \o InstantText(day, hh, 0, 0) \o << off[1] >> \o TwoDigits(off[2])
              \o << ":", "0", "0", "/" >> \o des \o << "\"" >>

OffsetTexts ==
  { OffsetComposite(day, hh, off, Designator(Nil, Ptr(5), Nil, Nil)) :
      day \in InstantDays, hh \in OffsetHours, off \in Offsets }

\* texts with the P marker that are no designator: a count with no unit, an
\* unknown unit letter, hours without the T, components out of order
MalformedTexts ==
  { << "P", "T", "5" >>,
    << "P", "5" >>,
    << "P", "T", "5", "X" >>,
    << "P", "3", "W" >>,
    << "P", "5", "H" >>,
    << "P", "T", "5", "M", "3", "H" >>,
    << "P", "T", "3", "H", "1", "D" >>,
    << "P", "T", "H" >> }

\* the dates written in other months than the epoch's: the days of
\* TestForecastDuration, a leap day, the first day after the epoch's month,
\* and days no calendar holds
Dates ==
  { << 2019, 10, 27 >>, << 2019, 10, 29 >>, << 2020, 2, 29 >>, << 2020, 9, 1 >>,
    << 2021, 2, 29 >>, << 2020, 13, 1 >>, << 2020, 4, 31 >> }

DatedHours == { << "0", "9" >>, << "9" >>, << "2", "4" >> }

\* "YYYY-MM-DDT<hour>:30:00+00:00/<designator>", in its JSON quotes
DatedComposite(date, hourText, des) ==
  << "\"" >> \o Digits(date[1]) \o << "-" >> \o TwoDigits(date[2]) \o << "-" >>
              \o TwoDigits(date[3]) \o << "T" >> \o hourText
              \o << ":", "3", "0", ":", "0", "0", "+", "0", "0", ":", "0", "0", "/" >>
              \o des \o << "\"" >>

DatedTexts ==
  { DatedComposite(date, hourText, Designator(Ptr(1), Ptr(15), Nil, Nil)) :
      date \in Dates, hourText \in DatedHours }

\* designators at the end of what an int64 of nanoseconds holds: the largest
\* hour and minute counts time.ParseDuration takes and the counts one above
\* them, and sums of components that pass the largest int64
WideDesignators ==
  { Designator(Nil, Ptr(MaxInt64Hours), Nil, Nil),
    Designator(Nil, Ptr(MaxInt64Hours + 1), Nil, Nil),
    Designator(Ptr(1), Ptr(MaxInt64Hours), Nil, Nil),
    Designator(Nil, Ptr(MaxInt64Hours), Ptr(1), Nil),
    Designator(Nil, Nil, Ptr(MaxInt64Minutes), Nil),
    Designator(Nil, Nil, Ptr(MaxInt64Minutes + 1), Nil),
    << "P", "T" >> \o [i \in 1..20 |-> "9"] \o << "H" >> }

WideTexts ==
  WideDesignators \cup { Composite(19, 4, 0, 0, des) : des \in WideDesignators }

ParseTexts ==
  { p \o des : p \in Prefixes, des \in Designators }
    \cup NoMarkerTexts \cup CompositeTexts \cup OffsetTexts \cup MalformedTexts
    \cup DatedTexts \cup WideTexts

InitParse ==
  /\ text \in ParseTexts
  /\ parseRet = NoParseCall
  /\ unmarshalRet = NoUnmarshalCall
  /\ HourlyIdle
  /\ AverageIdle
  /\ CreateIdle
  /\ PointsIdle

\* parseDuration(text)
CallParseDuration ==
  /\ ~parseRet.called
  /\ LET r == parseDuration(text)
     IN parseRet' = [called |-> TRUE, status |-> r.status, dur |-> r.dur]
  /\ UNCHANGED <<text, unmarshalRet, hourlyVars, averageVars, createVars, pointsVars>>

\* var t ForecastTime; t.UnmarshalJSON(text)
CallUnmarshalJSON ==
  /\ ~unmarshalRet.called
  /\ LET r == UnmarshalJSON(text)
     IN unmarshalRet' = [called |-> TRUE, status |-> r.status, t |-> r.t]
  /\ UNCHANGED <<text, parseRet, hourlyVars, averageVars, createVars, pointsVars>>

NextParse == CallParseDuration \/ CallUnmarshalJSON

SpecParse == InitParse /\ [][NextParse]_vars

-----------------------------------------------------------------------------
(* Calls of Points and of the functions built on it, from two goroutines,   *)
(* on a cache that starts empty.                                            *)

\* the number of points requests the server is sent
MaxRequests == 2

RECURSIVE SumIssued(_)
SumIssued(cs) ==
  IF cs = {} THEN 0
  ELSE LET c == CHOOSE x \in cs : TRUE
       IN apiRequests[c].issued + SumIssued(cs \ { c })

RequestsIssued == SumIssued(Coordinates)

RECURSIVE SumDocuments(_)
SumDocuments(cs) ==
  IF cs = {} THEN 0
  ELSE LET c == CHOOSE x \in cs : TRUE
       IN apiRequests[c].documents + SumDocuments(cs \ { c })

DocumentsServed == SumDocuments(Coordinates)

InitPoints ==
  /\ PointsIdle
  /\ HourlyIdle
  /\ AverageIdle
  /\ CreateIdle
  /\ ParseIdle

\* the record of a Points call that has returned
Returned(c, r) ==
  [called |-> TRUE, seq |-> 1 - pointsRet.seq, lat |-> c[1], lon |-> c[2],
   points |-> r.points, err |-> r.err, outcome |-> r.outcome]

\* where goroutine g stands once its Points call has returned r
Proceed(g, op, r) ==
  IF afterPoints(op, r) = "request"
  THEN [pc |-> "followUp", op |-> op, lat |-> "", lon |-> "", status |-> ""]
  ELSE IdleCall(afterPoints(op, r))

\* a panic nobody recovers ends the process
Panics(status) ==
  [program EXCEPT !.state = IF status = "panic" THEN "panic" ELSE @]

\* goroutine g calls op(c[1], c[2]): Points looks its endpoint up in the cache
\* (if pointsCache[endpoint] != nil) and goes on to return what the cache
\* holds, or sends its request and waits for the answer
Begin(g, op, c) ==
  /\ program.state = "running"
  /\ calls[g].pc = "idle"
  /\ LET e == endpoint(c[1], c[2])
         hit == ~IsNil(cached(pointsCache, e))
     IN /\ hit \/ RequestsIssued < MaxRequests
        /\ calls' = [calls EXCEPT ![g] = [pc |-> IF hit THEN "hit" ELSE "points",
                                          op |-> op, lat |-> c[1], lon |-> c[2],
                                          status |-> ""]]
        /\ apiRequests' = IF hit THEN apiRequests
                          ELSE [apiRequests EXCEPT ![c].issued = @ + 1]
  /\ program' = [program EXCEPT !.concurrent =
                   @ \/ \E h \in Goroutines \ { g } : calls[h].pc # "idle"]
  /\ UNCHANGED <<pointsCache, pointsRet, hourlyVars, averageVars, createVars, parseVars>>

\* Points(c[1], c[2])
CallPoints == \E g \in Goroutines, c \in Coordinates : Begin(g, "Points", c)

\* Stations(c[1], c[2])
CallStations == \E g \in Goroutines, c \in Coordinates : Begin(g, "Stations", c)

\* Forecast(c[1], c[2])
CallForecast == \E g \in Goroutines, c \in Coordinates : Begin(g, "Forecast", c)

\* ForecastDetailed(c[1], c[2])
CallForecastDetailed ==
  \E g \in Goroutines, c \in Coordinates : Begin(g, "ForecastDetailed", c)

\* GetEndpointGridForecast(endpoint): the request is sent
CallGetEndpointGridForecast ==
  \E g \in Goroutines :
     /\ program.state = "running"
     /\ calls[g].pc = "idle"
     /\ calls' = [calls EXCEPT ![g] = [pc |-> "followUp", op |-> "GetEndpointGridForecast",
                                       lat |-> "", lon |-> "", status |-> ""]]
     /\ program' = [program EXCEPT !.concurrent =
                      @ \/ \E h \in Goroutines \ { g } : calls[h].pc # "idle"]
     /\ UNCHANGED <<pointsCache, apiRequests, pointsRet, hourlyVars, averageVars,
                    createVars, parseVars>>

\* a Points call that found its endpoint in the cache returns: it looks the
\* endpoint up once more (return pointsCache[endpoint], nil) and returns what
\* the cache holds by now, with a nil error; its caller goes on
CachedReturned ==
  \E g \in Goroutines :
     /\ program.state = "running"
     /\ calls[g].pc = "hit"
     /\ LET c == << calls[g].lat, calls[g].lon >>
            r == PointsResult(cached(pointsCache, endpoint(c[1], c[2])), "",
                              pointsCache, "cached")
        IN /\ pointsRet' = Returned(c, r)
           /\ calls' = [calls EXCEPT ![g] = Proceed(g, calls[g].op, r)]
           /\ program' = Panics(afterPoints(calls[g].op, r))
     /\ UNCHANGED <<pointsCache, apiRequests, hourlyVars, averageVars, createVars,
                    parseVars>>

\* the answer to the request of a Points call arrives: Points decodes it,
\* stores the response and returns, and its caller goes on
PointsAnswered ==
  \E g \in Goroutines, outcome \in ApiOutcomes :
     /\ program.state = "running"
     /\ calls[g].pc = "points"
     /\ LET c == << calls[g].lat, calls[g].lon >>
            r == received(pointsCache, endpoint(c[1], c[2]), outcome, DocumentsServed + 1)
        IN /\ outcome \in ServerOutcomes(c)
           /\ pointsCache' = r.cache
           /\ pointsRet' = Returned(c, r)
           /\ apiRequests' =
                [apiRequests EXCEPT ![c].documents =
                                       IF outcome = "document" THEN @ + 1 ELSE @]
           /\ calls' = [calls EXCEPT ![g] = Proceed(g, calls[g].op, r)]
           /\ program' = Panics(afterPoints(calls[g].op, r))
     /\ UNCHANGED <<hourlyVars, averageVars, createVars, parseVars>>

\* the answer to the request a function sent after its Points call arrives
FollowUpAnswered ==
  \E g \in Goroutines, outcome \in ApiOutcomes :
     /\ program.state = "running"
     /\ calls[g].pc = "followUp"
     /\ calls' = [calls EXCEPT ![g] = IdleCall(followUp(calls[g].op, outcome))]
     /\ program' = Panics(followUp(calls[g].op, outcome))
     /\ UNCHANGED <<pointsCache, apiRequests, pointsRet, hourlyVars, averageVars,
                    createVars, parseVars>>

\* pointsCache is a plain map.  When one goroutine stores into it at the
\* moment another one looks an endpoint up (the lookup that begins a call or
\* the one that returns the cached response) or stores as well, the accesses
\* either fall one after the other (the steps above) or the Go runtime ends
\* the process with "fatal error: concurrent map read and map write" or
\* "concurrent map writes".
storing(g) ==
  /\ calls[g].pc = "points"
  /\ \E outcome \in ServerOutcomes(<< calls[g].lat, calls[g].lon >>) :
        outcome \in { "document", "null" }

ConcurrentMapAccess ==
  \E g \in Goroutines, h \in Goroutines :
     /\ g # h
     /\ program.state = "running"
     /\ storing(g)
     /\ calls[h].pc \in { "idle", "hit" } \/ storing(h)
     /\ program' = [state |-> "fatal error", concurrent |-> TRUE]
     /\ UNCHANGED <<pointsCache, apiRequests, pointsRet, calls, hourlyVars,
                    averageVars, createVars, parseVars>>

NextPoints ==
  \/ CallPoints
  \/ CallStations
  \/ CallForecast
  \/ CallForecastDetailed
  \/ CallGetEndpointGridForecast
  \/ CachedReturned
  \/ PointsAnswered
  \/ FollowUpAnswered
  \/ ConcurrentMapAccess

SpecPoints == InitPoints /\ [][NextPoints]_vars

-----------------------------------------------------------------------------
(* Properties of hourly, under SpecHourly *)

HourlyValues == Deref(hourlyRet.ts).Values

\* every value of the series spans at least one hour
PositiveSpans(values) == \A k \in 1..Len(values) : values[k].Time.Duration >= Hour

\* the series starts inside the window of the call
StartsInWindow ==
  /\ Len(series.Values) > 0
  /\ hourlyRet.tMin <= Tmin(series)
  /\ Tmin(series) <= hourlyRet.tMax

\* C1: for every non-empty series, sorted with non-overlapping spans, and
\* every window start <= end, hourly returns hours(end - start) + 1 values,
\* the first at start, the last at end, consecutive instants one hour apart.
\* Stated for the series the claim is least in doubt about: spans of at
\* least one hour, first instant inside the window.
C1_HourlyBoundary ==
  ( /\ hourlyRet.called
    /\ StartsInWindow
    /\ IsOrdered(series.Values)
    /\ PositiveSpans(series.Values) ) =>
     /\ hourlyRet.status = "ok"
     /\ Len(HourlyValues) = (hourlyRet.tMax - hourlyRet.tMin) + 1
     /\ HourlyValues[1].Time.Time = hourlyRet.tMin
     /\ HourlyValues[Len(HourlyValues)].Time.Time = hourlyRet.tMax
     /\ \A k \in 1..(Len(HourlyValues) - 1) :
           HourlyValues[k + 1].Time.Time = HourlyValues[k].Time.Time + Hour

\* C2: a sorted, non-overlapping series that starts inside the window and
\* has a value located past the window's end (directly after its predecessor
\* or after a gap) is cut to the window's N slots and returned without error.
\* Stated for series whose spans are all at least one hour.
C2_TruncatesPastEnd ==
  ( /\ hourlyRet.called
    /\ StartsInWindow
    /\ IsOrdered(series.Values)
    /\ PositiveSpans(series.Values)
    /\ \E k \in 1..Len(series.Values) : series.Values[k].Time.Time > hourlyRet.tMax ) =>
     /\ hourlyRet.status = "ok"
     /\ Len(HourlyValues) = (hourlyRet.tMax - hourlyRet.tMin) + 1

\* the series starts no later than the window ends
StartsByWindowEnd ==
  /\ Len(series.Values) > 0
  /\ Tmin(series) <= hourlyRet.tMax

WindowHours == (hourlyRet.tMax - hourlyRet.tMin) + 1

\* C11: hourly returns a non-nil series exactly when the first slot's instant
\* is the window start and the last slot's instant is the window end; in
\* every other case it returns a window-mismatch error and a nil series.
\* Stated for ordered series with spans of at least one hour that start no
\* later than the window ends: every such call ends in one of the two ways.
C11_SeriesIffBoundsMatch ==
  ( /\ hourlyRet.called
    /\ StartsByWindowEnd
    /\ IsOrdered(series.Values)
    /\ PositiveSpans(series.Values) ) =>
     \/ /\ hourlyRet.status = "ok"
        /\ ~IsNil(hourlyRet.ts)
        /\ HourlyValues[1].Time.Time = hourlyRet.tMin
        /\ HourlyValues[WindowHours].Time.Time = hourlyRet.tMax
     \/ /\ hourlyRet.status = "error"
        /\ IsNil(hourlyRet.ts)
        /\ hourlyRet.err \in { "start times do not match", "end times do not match" }

\* one value per hour from tMin to tMax, each spanning one hour
IsDenseOver(values, tMin, tMax) ==
  /\ Len(values) = (tMax - tMin) + 1
  /\ \A k \in 1..Len(values) :
        /\ values[k].Time.Time = tMin + (k - 1) * Hour
        /\ values[k].Time.Duration = Hour

\* C12: a series that is dense and hourly over the window comes back with
\* the same values (instant, duration, value) at every index, and resampling
\* the result of any successful call onto the same window returns that
\* result again.
C12_DenseIsFixedPoint ==
  hourlyRet.called =>
     /\ IsDenseOver(series.Values, hourlyRet.tMin, hourlyRet.tMax) =>
           /\ hourlyRet.status = "ok"
           /\ HourlyValues = series.Values
     /\ hourlyRet.status = "ok" =>
           /\ IsDenseOver(HourlyValues, hourlyRet.tMin, hourlyRet.tMax)
           /\ hourly(Deref(hourlyRet.ts), hourlyRet.tMin, hourlyRet.tMax)
                = HourlyResult("ok", "", hourlyRet.ts)

\* a dense series of two different values was resampled onto its own two hours
C12_Witness ==
  /\ hourlyRet.called
  /\ hourlyRet.status = "ok"
  /\ WindowHours = 2
  /\ IsDenseOver(series.Values, hourlyRet.tMin, hourlyRet.tMax)
  /\ series.Values[1].Value # series.Values[2].Value
  /\ HourlyValues = series.Values

\* every instant of the series lies inside the window of the call
InstantsInWindow ==
  \A k \in 1..Len(series.Values) :
     /\ hourlyRet.tMin <= series.Values[k].Time.Time
     /\ series.Values[k].Time.Time <= hourlyRet.tMax

\* the slot of the hour t in an output that starts at tMin
SlotOf(t) == ((t - hourlyRet.tMin) \div Hour) + 1

\* C20: for two consecutive values with a gap of g >= 1 hours between the
\* end of the first one's span and the instant of the second, both inside
\* the window, the output has g slots for the gap hours, each with a
\* one-hour span and the value of the sample before the gap, and the second
\* value's first slot is at index hours(its instant - windowStart).  Stated
\* for a second value that spans at least one hour, so that it has a slot.
C20_GapCarriesLastValue ==
  (hourlyRet.called /\ IsOrdered(series.Values) /\ InstantsInWindow) =>
     \A k \in 1..(Len(series.Values) - 1) :
        LET a == series.Values[k]
            b == series.Values[k + 1]
            g == (b.Time.Time - endTime(a.Time)) \div Hour
        IN (g >= 1 /\ b.Time.Duration >= Hour) =>
              /\ hourlyRet.status = "ok"
              /\ \A j \in 1..g :
                    HourlyValues[SlotOf(endTime(a.Time)) + (j - 1)]
                      = ForecastTimeseriesValue(endTime(a.Time) + (j - 1) * Hour, Hour,
                                                a.Value)
              /\ HourlyValues[SlotOf(b.Time.Time)].Time.Time = b.Time.Time

\* the hours between the window's start and the series' first instant
LeadGap == (Tmin(series) - hourlyRet.tMin) \div Hour

\* the lead padding of the call, as the lead-padding loop leaves it
LeadPadding ==
  padStart(<< >>, 0, LeadGap, hourlyRet.tMin, series.Values[1], WindowHours)

\* C21: when the series starts LeadGap > 0 hours after the window's start,
\* slots 0..LeadGap-1 are filled with the series' first value, slot i at
\* windowStart + i hours with a one-hour span, and whenever hourly succeeds
\* its first output value is the series' first value.
C21_LeadFillCarriesFirstValue ==
  (hourlyRet.called /\ Len(series.Values) > 0 /\ IsOrdered(series.Values)) =>
     /\ LeadGap > 0 =>
           /\ ~LeadPadding.panic
           /\ Len(LeadPadding.out) = LeadGap
           /\ \A i \in 1..LeadGap :
                 LeadPadding.out[i]
                   = ForecastTimeseriesValue(hourlyRet.tMin + (i - 1) * Hour, Hour,
                                             series.Values[1].Value)
           /\ hourlyRet.status = "ok" =>
                 \A i \in 1..LeadGap : HourlyValues[i] = LeadPadding.out[i]
     /\ hourlyRet.status = "ok" => HourlyValues[1].Value = series.Values[1].Value

\* the output array once the input values are consumed (lead padding, gap
\* fills and spans written)
AfterValues ==
  LET a == LeadPadding
  IN IF a.panic THEN a ELSE walkValues(a.out, series.Values, 1, WindowHours)

\* C22: when fewer than N slots are filled once the input values are
\* consumed, every remaining slot gets the value of the last filled slot,
\* with instants going on in one-hour steps after it, so that N slots are
\* filled.
C22_EndPadCarriesLastValue ==
  ( /\ hourlyRet.called
    /\ Len(series.Values) > 0
    /\ IsOrdered(series.Values)
    /\ ~AfterValues.panic
    /\ Len(AfterValues.out) < WindowHours ) =>
     /\ hourlyRet.status # "panic"
     /\ hourlyRet.status = "ok" =>
           /\ Len(HourlyValues) = WindowHours
           /\ \A i \in 1..(WindowHours - Len(AfterValues.out)) :
                 LET hr == Len(AfterValues.out)
                     lastValue == AfterValues.out[hr]
                 IN HourlyValues[hr + i]
                      = ForecastTimeseriesValue(lastValue.Time.Time + i * Hour, Hour,
                                                lastValue.Value)

\* a second sorted series: one one-hour value at the window's last hour
Companion ==
  ForecastTimeseries("Temperature", "ep1", series.Units,
                     << ForecastTimeseriesValue(hourlyRet.tMax, Hour, Whole(1)) >>)

MismatchErrors == {"timeseries length must match", "times must match"}

\* C23: whenever hourly of src/hourly.go succeeds, its output has one slot
\* per hour of the window, slot i at windowStart + i hours with a one-hour
\* span, whatever the series; so two series resampled on the same window
\* have the same length and instants, and averageForecastTimeseries, in
\* whichever build, returns neither its length-mismatch nor its
\* times-must-match error for them, in either order.
C23_SuccessfulOutputsAlign ==
  ( /\ hourlyRet.called
    /\ Len(series.Values) > 0
    /\ IsOrdered(series.Values)
    /\ hourlyRet.status = "ok" ) =>
     LET other == hourly(Companion, hourlyRet.tMin, hourlyRet.tMax)
     IN /\ other.status = "ok"
        /\ Len(HourlyValues) = WindowHours
        /\ Len(Deref(other.ts).Values) = Len(HourlyValues)
        /\ \A i \in 1..WindowHours :
              /\ HourlyValues[i].Time
                   = ForecastTime(hourlyRet.tMin + (i - 1) * Hour, Hour)
              /\ Deref(other.ts).Values[i].Time = HourlyValues[i].Time
        /\ \A b \in Builds :
              /\ averageForecastTimeseries(b, "Temperature",
                                           << Ptr(series), Ptr(Companion) >>,
                                           hourlyRet.tMin, hourlyRet.tMax).err
                   \notin MismatchErrors
              /\ averageForecastTimeseries(b, "Temperature",
                                           << Ptr(Companion), Ptr(series) >>,
                                           hourlyRet.tMin, hourlyRet.tMax).err
                   \notin MismatchErrors

\* a series with a gap and an early end is resampled next to the companion
C23_Witness ==
  /\ hourlyRet.called
  /\ hourlyRet.status = "ok"
  /\ IsOrdered(series.Values)
  /\ Len(series.Values) = 2
  /\ PositiveSpans(series.Values)
  /\ series.Values[2].Time.Time > endTime(series.Values[1].Time)
  /\ endTime(series.Values[2].Time) <= hourlyRet.tMax
  /\ WindowHours >= 4

\* C28: for every non-empty series and every window whose start is not after
\* its end, each read and write of the output array in hourly (lead padding,
\* gap fill, span, end padding, and the read of the last filled slot) uses
\* an index in 0..N-1: the lead padding, the walk over the values and the
\* read before the end padding all stay in range, so the call does not
\* panic.
C28_IndicesStayInRange ==
  ( /\ hourlyRet.called
    /\ Len(series.Values) > 0
    /\ hourlyRet.tMin <= hourlyRet.tMax ) =>
     /\ ~LeadPadding.panic
     /\ ~AfterValues.panic
     /\ Len(AfterValues.out) \in 1..WindowHours
     /\ hourlyRet.status # "panic"

\* the same call made to the hourly of src/average.go
OfAverage == hourlyOfAverage(series, hourlyRet.tMin, hourlyRet.tMax)

\* C30: for a non-empty, sorted, non-overlapping series and a window on
\* which the hourly of src/hourly.go and the hourly of src/average.go both
\* return a series, the two series have the same instants and the same
\* values at every index.
C30_TwoHourliesAgree ==
  ( /\ hourlyRet.called
    /\ Len(series.Values) > 0
    /\ IsOrdered(series.Values)
    /\ hourlyRet.status = "ok"
    /\ OfAverage.status = "ok" ) =>
     /\ Len(Deref(OfAverage.ts).Values) = Len(HourlyValues)
     /\ \A i \in 1..Len(HourlyValues) :
           /\ Deref(OfAverage.ts).Values[i].Time.Time = HourlyValues[i].Time.Time
           /\ Deref(OfAverage.ts).Values[i].Value = HourlyValues[i].Value

-----------------------------------------------------------------------------
(* Properties of parseDuration and UnmarshalJSON, under SpecParse *)

\* the number a component stands for; an absent component counts zero
CountOf(count) == IF IsNil(count) THEN 0 ELSE Deref(count)

\* m minutes rounded up to whole hours
CeilHours(m) == (m + (MinutesPerHour - 1)) \div MinutesPerHour

\* C13: for a designator of d days and h hours (each optional, no minutes),
\* alone or after an "<instant>/" prefix, parseDuration returns 24*d + h hours.
C13_DaysAndHours ==
  parseRet.called =>
     \A p \in Prefixes, d \in DayCounts, h \in HourCounts :
        text = p \o Designator(d, h, Nil, Nil) =>
           /\ parseRet.status = "ok"
           /\ Deref(parseRet.dur)
                = [hours |-> (HoursPerDay * CountOf(d) + CountOf(h)) * Hour, wraps |-> 0]

\* C14: with a minute count m > 0 the minutes are rounded up to whole hours:
\* parseDuration returns 24*d + h + ceil(m/60) hours.  Stated for day counts
\* of one digit.
C14_MinutesRoundUp ==
  parseRet.called =>
     \A p \in Prefixes, d \in DayCounts, h \in HourCounts, m \in MinuteCounts,
        s \in SecondCounts :
        ( /\ text = p \o Designator(d, h, m, s)
          /\ CountOf(d) < 10
          /\ CountOf(m) > 0 ) =>
           /\ parseRet.status = "ok"
           /\ Deref(parseRet.dur)
                = [hours |-> (HoursPerDay * CountOf(d) + CountOf(h)
                                + CeilHours(CountOf(m))) * Hour,
                   wraps |-> 0]

\* the hour count of 2020-08-<day>T<hh>
InstantHour(day, hh) == ((day - 1) * HoursPerDay + hh) * Hour

\* C15: unmarshalling "<instant>+00:00/<designator>" yields the instant with
\* its minutes and seconds set to zero (never rounded up) and the duration
\* parseDuration gives for the designator; it fails only when parseDuration
\* fails for the designator, which the designators of the forecasts' size
\* never do.
C15_UnmarshalTruncates ==
  unmarshalRet.called =>
     \A day \in InstantDays \cup { 19 }, hh \in InstantHours \cup { 4 },
        mm \in InstantMinutes, ss \in InstantSeconds,
        des \in CompositeDesignators \cup WideDesignators :
        text = Composite(day, hh, mm, ss, des) =>
           LET dur == parseDuration(des)
           IN /\ unmarshalRet.status = dur.status
              /\ des \in CompositeDesignators => dur.status = "ok"
              /\ dur.status = "ok" =>
                    /\ unmarshalRet.t.Time = InstantHour(day, hh)
                    /\ unmarshalRet.t.Duration = Deref(dur.dur)

\* "2020-08-19T09:59:59+00:00/PT6H16M34S" was read as 09:00 and seven hours
C15_Witness ==
  /\ unmarshalRet.called
  /\ text = Composite(19, 9, 59, 59, Designator(Nil, Ptr(6), Ptr(16), Ptr(34)))
  /\ unmarshalRet.status = "ok"
  /\ unmarshalRet.t = ForecastTime(InstantHour(19, 9), Duration(7 * Hour))

\* C16: parseDuration returns an error and no duration for every text that
\* does not contain the P marker.
C16_NoMarkerIsAnError ==
  (parseRet.called /\ \A i \in 1..Len(text) : text[i] # "P") =>
     /\ parseRet.status = "error"
     /\ IsNil(parseRet.dur)

\* a designator in lower case was refused
C16_Witness ==
  /\ parseRet.called
  /\ text = ToLower(Designator(Ptr(1), Ptr(3), Nil, Nil))
  /\ parseRet.status = "error"
  /\ IsNil(parseRet.dur)

\* the instant of the text "2020-08-DDTHH:00:00<sign>hh:00", in hours of UTC
\* since the start of the month: the local clock reading less the offset
OffsetInstantHour(day, hh, off) ==
  ((day - 1) * HoursPerDay + hh - (IF off[1] = "-" THEN -off[2] ELSE off[2])) * Hour

\* C26: for a composite value whose instant carries a UTC offset other than
\* zero, UnmarshalJSON yields the point in time the instant names (the local
\* clock reading less the offset), truncated to the hour, and the duration
\* of the designator.
C26_OffsetIsHonoured ==
  unmarshalRet.called =>
    \A day \in InstantDays, hh \in OffsetHours, off \in Offsets :
       text = OffsetComposite(day, hh, off, Designator(Nil, Ptr(5), Nil, Nil)) =>
          /\ unmarshalRet.status = "ok"
          /\ unmarshalRet.t
               = ForecastTime(OffsetInstantHour(day, hh, off), Duration(5 * Hour))

\* the position after the component "<digits>u" of s at position p, or p
\* when no such component stands there
After(s, p, u) ==
  LET n == DigitRun(s, p)
  IN IF n > 0 /\ p + n <= Len(s) /\ s[p + n] = u THEN p + n + 1 ELSE p

\* s is [nD][T[nH][nM[nS]]]
WellFormed(s) ==
  LET p1 == After(s, 1, "D")
  IN \/ p1 > Len(s)
     \/ /\ s[p1] = "T"
        /\ LET p2 == After(s, p1 + 1, "H")
               p3 == After(s, p2, "M")
               p4 == IF p3 > p2 THEN After(s, p3, "S") ELSE p3
           IN p4 > Len(s)

\* the texts that are a P and what follows it
MarkedTexts == Designators \cup MalformedTexts

\* C27: for a text that starts with its P marker, parseDuration returns a
\* duration without error only when what follows the P is
\* [nD][T[nH][nM[nS]]]; any other text after the P yields an error.
C27_MalformedIsAnError ==
  (parseRet.called /\ text \in MarkedTexts) =>
     /\ parseRet.status # "panic"
     /\ parseRet.status = "ok" => WellFormed(Tail(text))

-----------------------------------------------------------------------------
(* Properties of Points, under SpecPoints *)

\* the map holds a response for the endpoint
Holds(cache, e) == e \in DOMAIN cache /\ cache[e] # Nil

\* the coordinates of the last call
LastCoordinates == << pointsRet.lat, pointsRet.lon >>

LastEndpoint == endpoint(pointsRet.lat, pointsRet.lon)

\* a Points call returned in this step
PointsReturns == pointsRet'.seq # pointsRet.seq

\* the Points call that returned in this step was for the coordinates c
ReturnsFor(c) == PointsReturns /\ pointsRet'.lat = c[1] /\ pointsRet'.lon = c[2]

\* C18: in every sequence of calls (no two of them in progress at once):
\* once Points has returned a response for a pair of coordinates, the cache
\* holds that response from then on, every later call with the same
\* coordinates returns it without a request to the server, whatever calls
\* come in between, and no pair of coordinates is served a document twice.
C18_CachedAfterSuccess ==
  /\ [](~program.concurrent =>
          \A c \in Coordinates : apiRequests[c].documents <= 1)
  /\ []((pointsRet.called /\ pointsRet.points # Nil) =>
          (Holds(pointsCache, LastEndpoint) /\ pointsCache[LastEndpoint] = pointsRet.points))
  /\ [][~program'.concurrent =>
          \A c \in Coordinates :
             LET e == endpoint(c[1], c[2])
             IN Holds(pointsCache, e) =>
                   /\ Holds(pointsCache', e)
                   /\ pointsCache'[e] = pointsCache[e]
                   /\ ReturnsFor(c) =>
                         /\ pointsRet'.points = pointsCache[e]
                         /\ pointsRet'.err = ""
                         /\ apiRequests' = apiRequests]_vars

\* a call was answered from the cache after a later request for other
\* coordinates had been served, no two calls ever in progress at once
C18_Witness ==
  /\ ~program.concurrent
  /\ pointsRet.called
  /\ pointsRet.outcome = "cached"
  /\ pointsRet.points # Nil
  /\ \E c \in Coordinates :
        /\ c # LastCoordinates
        /\ Holds(pointsCache, endpoint(c[1], c[2]))
        /\ pointsCache[endpoint(c[1], c[2])][1].addr > pointsRet.points[1].addr

\* the call went to the server and came back without a decoded body
Failed(outcome) == outcome \in ApiErrors \cup { "undecodable" }

\* goroutine g began a Points call for c in this step
Begins(g, c) ==
  /\ calls[g].pc = "idle"
  /\ calls'[g].pc \in { "points", "hit" }
  /\ calls'[g].lat = c[1]
  /\ calls'[g].lon = c[2]

\* C19: when the request fails (as it does for blank, zero and non-U.S.
\* coordinates) or the body does not decode, Points returns a nil response
\* and a non-nil error and leaves the cache as it was, and a call that
\* begins for coordinates the cache holds no response for does not take the
\* cached path: it sends a request.
C19_FailureLeavesCacheAlone ==
  /\ []((pointsRet.called /\ LastCoordinates \in NotCovered) =>
          (pointsRet.points = Nil /\ pointsRet.err # ""))
  /\ [][(PointsReturns /\ Failed(pointsRet'.outcome)) =>
          /\ pointsRet'.points = Nil
          /\ pointsRet'.err # ""
          /\ pointsCache' = pointsCache]_vars
  /\ [][\A c \in Coordinates :
          ~Holds(pointsCache, endpoint(c[1], c[2])) =>
             \A g \in Goroutines :
                Begins(g, c) =>
                   /\ calls'[g].pc = "points"
                   /\ apiRequests'[c].issued = apiRequests[c].issued + 1]_vars

\* coordinates outside the U.S. were asked for again after a failure, and
\* the second call sent a request as well and failed as well
C19_Witness ==
  /\ pointsRet.called
  /\ LastCoordinates \in NotCovered
  /\ Failed(pointsRet.outcome)
  /\ pointsRet.points = Nil
  /\ apiRequests[LastCoordinates].issued >= 2
  /\ ~Holds(pointsCache, LastEndpoint)

-----------------------------------------------------------------------------
(* Properties of AverageForecast, under Spec *)

InputSeries(i, k) == Deref(forecasts[i][k])

\* series k of input i resampled onto the window of the call, by the hourly
\* of the build
Resampled(i, k) == hourlyOf(avgRet.build, InputSeries(i, k), avgRet.tsMin, avgRet.tsMax)

WindowSlots == 1..((avgRet.tsMax - avgRet.tsMin) + 1)

\* the exact sum of the finite values xs[1..i]
RECURSIVE exactSum(_, _)
exactSum(xs, i) == IF i = 0 THEN Zero(FALSE) ELSE exactPlus(xs[i], exactSum(xs, i - 1))

magnitude(x) == [x EXCEPT !.neg = FALSE]

negated(x) == [x EXCEPT !.neg = ~@]

\* -1, 0 or 1 as |x| is below, equal to or above |y|
cmpMagnitude(x, y) ==
  LET e == Min(x.exp, y.exp)
  IN natCmp(shl(x.mant, x.exp - e), shl(y.mant, y.exp - e))

\* the float64 operations behind a mean of n values: n divisions and n
\* additions, each rounded once
Roundings(n) == n + n

\* v is the unweighted mean of the values xs, to the precision of float64:
\* a rounding moves a result by less than one unit in its last place, which
\* is 2^-52 of it, and no result is larger than the sum of the magnitudes of
\* xs, so Len(xs) * v is within Roundings * 2^-52 of that sum from the sum
\* of xs
IsMean(v, xs) ==
  LET n == Len(xs)
      gap == exactPlus(exactTimes(v, n), negated(exactSum(xs, n)))
      size == exactSum([i \in 1..n |-> magnitude(xs[i])], n)
  IN /\ v.class = "finite"
     /\ cmpMagnitude([gap EXCEPT !.exp = @ + (MantissaBits - 1)],
                     exactTimes(size, Roundings(n))) <= 0

\* series k of each of the inputs js, resampled
ResampledValues(js, k) == [j \in 1..Len(js) |-> Deref(Resampled(js[j], k).ts).Values]

\* the values of the series hs at slot e
At(hs, e) == [j \in 1..Len(hs) |-> hs[j][e].Value]

Inputs == [i \in 1..Len(forecasts) |-> i]

\* the first Temperature values of the inputs
FirstTemperatures ==
  [i \in 1..Len(forecasts) |-> InputSeries(i, "Temperature").Values[1].Value]

\* what TestAverage compares the first averaged Temperature value of two
\* forecasts with: the float64 (a + b) / 2.0
HalfSum(xs) == Quot(Plus(xs[1], xs[2]), 2)

\* C3: the window handed to the resampler contains the observed bounds of
\* every series of every input that has values: tsMin <= Tmin and
\* tsMax >= Tmax.
C3_WindowIsUnionOfObservedBounds ==
  (avgRet.called /\ avgRet.resampling) =>
     \A i \in 1..Len(forecasts), k \in SeriesNameSet :
        Len(InputSeries(i, k).Values) > 0 =>
           /\ avgRet.tsMin <= Tmin(InputSeries(i, k))
           /\ avgRet.tsMax >= Tmax(InputSeries(i, k))

\* C4: after a successful AverageForecast the averaged series of every name
\* has, at every slot e of the window, the unweighted mean of the inputs'
\* resampled values at e, and the first Temperature value returned is the
\* mean of the inputs' first Temperature values; a mean is a float64 and
\* equals the sum divided by N to the precision of float64, and for two
\* forecasts it is the float64 (a + b) / 2.0.
C4_AverageIsMean ==
  (avgRet.called /\ avgRet.status = "ok") =>
     /\ \A k \in SeriesNameSet :
           /\ ~IsNil(avgRet.meanTimeseries[k])
           /\ Len(Deref(avgRet.meanTimeseries[k]).Values) = Cardinality(WindowSlots)
           /\ LET hs == ResampledValues(Inputs, k)
              IN \A e \in WindowSlots :
                    IsMean(Deref(avgRet.meanTimeseries[k]).Values[e].Value, At(hs, e))
     /\ ~IsNil(Deref(avgRet.fcst).Temperature)
     /\ IsMean(Deref(Deref(avgRet.fcst).Temperature).Values[1].Value, FirstTemperatures)
     /\ Len(forecasts) = 2 =>
           Deref(Deref(avgRet.fcst).Temperature).Values[1].Value = HalfSum(FirstTemperatures)

\* the same two forecasts in the other order
Reversed == << forecasts[2], forecasts[1] >>

\* both calls fail, or both succeed on the same window with the same
\* elevation and the same seven series
SameOutcome(o) ==
  \/ avgRet.status # "ok" /\ o.status # "ok"
  \/ /\ avgRet.status = "ok"
     /\ o.status = "ok"
     /\ o.tsMin = avgRet.tsMin
     /\ o.tsMax = avgRet.tsMax
     /\ Deref(o.fcst).Elevation = Deref(avgRet.fcst).Elevation
     /\ \A k \in SeriesNameSet : Deref(o.fcst)[k] = Deref(avgRet.fcst)[k]

\* C5: AverageForecast([A, B]) and AverageForecast([B, A]), called with the
\* same debug flag, have the same outcome: both fail, or both succeed with
\* the same window, elevation and per-series values.
C5_OrderIndependent ==
  (avgRet.called /\ Len(forecasts) = 2) =>
     \A o \in AverageForecastOutcomes(avgRet.build, Reversed, avgRet.debug) :
        SameOutcome(o)

\* the list holds one forecast, or the same forecast twice
SelfAverage ==
  \/ Len(forecasts) = 1
  \/ Len(forecasts) = 2 /\ forecasts[1] = forecasts[2]

\* C6: AverageForecast([A, A]) and AverageForecast([A]), when they succeed,
\* return for each of the seven series values equal at every index to A's
\* own series resampled onto the window of the call.
C6_SelfAverageIsResampled ==
  (avgRet.called /\ avgRet.status = "ok" /\ SelfAverage) =>
     \A k \in SeriesNameSet :
        /\ ~IsNil(Deref(avgRet.fcst)[k])
        /\ LET own == Deref(Resampled(1, k).ts).Values
           IN \A e \in WindowSlots :
                 Deref(Deref(avgRet.fcst)[k]).Values[e].Value = own[e].Value

\* C7: the forecast returned by a successful AverageForecast carries the
\* first input's Updated, the mean elevation, and the averaged series of
\* every one of the seven names; none is dropped.
C7_ResultCarriesEverySeries ==
  (avgRet.called /\ avgRet.status = "ok") =>
     /\ Deref(avgRet.fcst).Updated = forecasts[1].Updated
     /\ IsMean(Deref(avgRet.fcst).Elevation.Value,
               [i \in 1..Len(forecasts) |-> forecasts[i].Elevation.Value])
     /\ \A k \in SeriesNameSet :
           /\ ~IsNil(Deref(avgRet.fcst)[k])
           /\ Deref(avgRet.fcst)[k] = avgRet.meanTimeseries[k]

\* C8: AverageForecast leaves every input forecast unchanged, on success and
\* on error: Updated, Elevation, ValidTimes and the Name, ID, Units and
\* Values of every series are what they were before the call.
C8_InputsUnchanged == [][forecasts' = forecasts]_vars

ElevationUnitsDiffer ==
  \E i, j \in 1..Len(forecasts) :
     forecasts[i].Elevation.Units # forecasts[j].Elevation.Units

SeriesUnitsDiffer ==
  \E k \in SeriesNameSet : \E i, j \in 1..Len(forecasts) :
     /\ ~IsNil(forecasts[i][k])
     /\ ~IsNil(forecasts[j][k])
     /\ InputSeries(i, k).Units # InputSeries(j, k).Units

\* C9: whenever two inputs differ in their elevation unit, or in the units
\* of a series of the same name, AverageForecast returns an error and no
\* forecast.
C9_UnitMismatchIsAnError ==
  (avgRet.called /\ (ElevationUnitsDiffer \/ SeriesUnitsDiffer)) =>
     /\ avgRet.status = "error"
     /\ IsNil(avgRet.fcst)

\* hourly returns its window-mismatch error for some series of some input
SomeResamplingError ==
  \E i \in 1..Len(forecasts), k \in SeriesNameSet : Resampled(i, k).status = "error"

\* C10: if resampling or validation fails for one series of one input,
\* AverageForecast returns an error and a nil forecast, never a forecast.
C10_OneFailureIsAnError ==
  (avgRet.called /\ avgRet.resampling /\ (SomeResamplingError \/ SeriesUnitsDiffer)) =>
     /\ avgRet.status = "error"
     /\ IsNil(avgRet.fcst)

\* C17: AverageForecast on an empty list returns the error "no forecasts to
\* average" and a nil forecast, and reads no element of the list (it neither
\* panics nor gets as far as the resampling).
C17_EmptyListIsAnError ==
  (avgRet.called /\ Len(forecasts) = 0) =>
     /\ avgRet.status = "error"
     /\ avgRet.err = "no forecasts to average"
     /\ IsNil(avgRet.fcst)
     /\ ~avgRet.resampling

\* the empty list was averaged and refused
C17_Witness ==
  /\ avgRet.called
  /\ Len(forecasts) = 0
  /\ avgRet.status = "error"
  /\ IsNil(avgRet.fcst)

\* the inputs that carry series k
Carriers(k) == { i \in 1..Len(forecasts) : ~IsNil(forecasts[i][k]) }

\* the same, in list order
CarrierList(k) ==
  LET carries(i) == ~IsNil(forecasts[i][k]) IN SelectSeq(Inputs, carries)

\* the names some inputs carry and others lack
PartlyAbsent == { k \in SeriesNameSet : Carriers(k) \notin { {}, 1..Len(forecasts) } }

\* C24: when some inputs carry a series and others lack it, AverageForecast
\* does not crash, and the series it returns under that name is the mean,
\* to the precision of float64, of the resampled values of the inputs that
\* carry it.
C24_AbsentSeriesIsSkipped ==
  (avgRet.called /\ PartlyAbsent # {}) =>
     /\ avgRet.status # "panic"
     /\ avgRet.status = "ok" =>
           \A k \in PartlyAbsent :
              /\ ~IsNil(avgRet.meanTimeseries[k])
              /\ LET hs == ResampledValues(CarrierList(k), k)
                 IN \A e \in WindowSlots :
                       IsMean(Deref(avgRet.meanTimeseries[k]).Values[e].Value, At(hs, e))

\* the forecast a successful AverageForecast returned
Averaged == Deref(avgRet.fcst)

\* C29: the forecast returned by a successful AverageForecast can be given to
\* AverageForecast or to CreateForecastHourly without a crash: its ValidTimes
\* is set and spans the averaging window, and each of its seven series is
\* set.
C29_ResultIsReusable ==
  (avgRet.called /\ avgRet.status = "ok") =>
     /\ ~IsNil(Averaged.ValidTimes)
     /\ Deref(Averaged.ValidTimes).Time = avgRet.tsMin
     /\ endTime(Deref(Averaged.ValidTimes)) = avgRet.tsMax
     /\ \A k \in SeriesNameSet : ~IsNil(Averaged[k])
     /\ \A debug \in BOOLEAN :
           \A o \in AverageForecastOutcomes(avgRet.build, << Averaged >>, debug) :
              o.status # "panic"
     /\ \A o \in CreateForecastHourlyOutcomes(Averaged) : o.status # "panic"

-----------------------------------------------------------------------------
(* Properties of CreateForecastHourly, under SpecCreate *)

\* the advertised window of the grid forecast
Validity == Deref(Deref(grid).ValidTimes)

\* series k of the grid forecast
GridSeries(k) == Deref(Deref(grid)[k])

\* series k has a sample that starts before the advertised window or ends
\* after it
ExtendsBeyond(k) ==
  LET v == GridSeries(k).Values
  IN \/ v[1].Time.Time < Validity.Time
     \/ endTime(v[Len(v)].Time) > endTime(Validity)

\* the grid forecast carries all seven series, each with values
AllSeriesPresent ==
  \A k \in SeriesNameSet :
     ~IsNil(Deref(grid)[k]) /\ Len(GridSeries(k).Values) > 0

\* C25: CreateForecastHourly succeeds for a grid forecast with ValidTimes
\* some of whose series start before ValidTimes or end after it: the hourly forecast has
\* one instant per hour of the advertised window and every series has one
\* value per instant, the samples outside the window being dropped.
C25_SeriesBeyondValidityAreTruncated ==
  ( /\ createRet.called
    /\ ~IsNil(Deref(grid).ValidTimes)
    /\ AllSeriesPresent
    /\ knownElevationUnits(Deref(grid).Elevation.Units)
    /\ \E k \in SeriesNameSet : ExtendsBeyond(k) ) =>
     /\ createRet.status = "ok"
     /\ LET h == Deref(createRet.fcst)
            N == Validity.Duration \div Hour + 1
        IN /\ Len(h.Times) = N
           /\ \A j \in 1..N : h.Times[j] = Validity.Time + (j - 1) * Hour
           /\ \A i \in 1..Len(seriesNames) : Len(h.Values[i]) = N

====
